---- MODULE Spec2Model ----
(***************************************************************************)
(* dbcat: the catalog (sources, schemas, tables, columns, foreign keys),   *)
(* the validated import of a stream of records into it, parse_spec,        *)
(* export_format, scan_sources and the add_<type>_source functions         *)
(* (dbcat/api.py), and the commands (dbcat/cli.py).  The Catalog           *)
(* repository class (dbcat.catalog) lies outside api.py; its operations,   *)
(* its searches and its two scopes are modelled from the specification,    *)
(* sections 4.1 and 4.3, and from the way api.py and cli.py call them.     *)
(* The foreign_keys table is the one the migration 2c9ea0ca3b76 creates.   *)
(***************************************************************************)
EXTENDS Integers, Sequences, FiniteSets, TLC

(***************************************************************************)
(* Bounds.                                                                 *)
(***************************************************************************)
\* The longest stream one call of import_from_object_stream reads.
MaxStream == 2
\* The most rows the foreign_keys table is let grow to.
MaxForeignKeys == 2
\* The longest string parse_spec is tried on, in pieces.
MaxSpecLen == 5

(***************************************************************************)
(* Names.  Lookups normalise case (spec, section 3).                       *)
(***************************************************************************)
Lower(s) ==
    CASE s = "T1" -> "t1"
      [] s = "S1" -> "s1"
      [] OTHER -> s

SourceNames == {"s1", "s2"}

(***************************************************************************)
(* The catalog.  A row carries the names of its ancestors as they are      *)
(* stored: a schema is <<source, schema>>, a table <<source, schema,       *)
(* table>>, a column has the fqdn <<source, schema, table, column>>.       *)
(* foreign_keys is the foreign_keys table in insertion order, one row per  *)
(* (source column, target column).                                         *)
(***************************************************************************)
EmptyCatalog ==
    [sources |-> {}, schemas |-> {}, tables |-> {}, columns |-> {},
     foreign_keys |-> <<>>]

\* What a repository call gives back: the catalog after it and the
\* exception it raised ("" when it returned normally).
Returned(cat) == [catalog |-> cat, exc |-> ""]
Raised(cat, e) == [catalog |-> cat, exc |-> e]

SameName(a, b) == Lower(a) = Lower(b)

SourceRows(cat, source_name) ==
    {s \in cat.sources : SameName(s, source_name)}

SchemaRows(cat, source_name, schema_name) ==
    {r \in cat.schemas : SameName(r[1], source_name) /\ SameName(r[2], schema_name)}

TableRows(cat, source_name, schema_name, table_name) ==
    {r \in cat.tables : /\ SameName(r[1], source_name)
                        /\ SameName(r[2], schema_name)
                        /\ SameName(r[3], table_name)}

ColumnRows(cat, source_name, schema_name, table_name, column_name) ==
    {c \in cat.columns : /\ SameName(c.fqdn[1], source_name)
                         /\ SameName(c.fqdn[2], schema_name)
                         /\ SameName(c.fqdn[3], table_name)
                         /\ SameName(c.fqdn[4], column_name)}

\* get_<entity>: the row, or NoResultFound when there is none.  has_<entity>
\* is "the call returns", get_<entity> the row it returns.
has_source(cat, source_name) == SourceRows(cat, source_name) # {}
get_source(cat, source_name) == CHOOSE s \in SourceRows(cat, source_name) : TRUE

has_schema(cat, source_name, schema_name) ==
    SchemaRows(cat, source_name, schema_name) # {}
get_schema(cat, source_name, schema_name) ==
    CHOOSE r \in SchemaRows(cat, source_name, schema_name) : TRUE

has_table(cat, source_name, schema_name, table_name) ==
    TableRows(cat, source_name, schema_name, table_name) # {}
get_table(cat, source_name, schema_name, table_name) ==
    CHOOSE r \in TableRows(cat, source_name, schema_name, table_name) : TRUE

has_column(cat, source_name, schema_name, table_name, column_name) ==
    ColumnRows(cat, source_name, schema_name, table_name, column_name) # {}
get_column(cat, source_name, schema_name, table_name, column_name) ==
    CHOOSE c \in ColumnRows(cat, source_name, schema_name, table_name, column_name) : TRUE

\* add_<entity>: a new row under the given parent row; a name the parent
\* already has (ignoring case) is a constraint violation.
add_source(cat, name) ==
    IF has_source(cat, name)
    THEN Raised(cat, "ConstraintViolation")
    ELSE Returned([cat EXCEPT !.sources = @ \cup {name}])

add_schema(cat, schema_name, source) ==
    IF has_schema(cat, source, schema_name)
    THEN Raised(cat, "ConstraintViolation")
    ELSE Returned([cat EXCEPT !.schemas = @ \cup {<<source, schema_name>>}])

add_table(cat, table_name, schema) ==
    IF has_table(cat, schema[1], schema[2], table_name)
    THEN Raised(cat, "ConstraintViolation")
    ELSE Returned([cat EXCEPT !.tables = @ \cup {<<schema[1], schema[2], table_name>>}])

add_column(cat, column_name, data_type, sort_order, table) ==
    IF has_column(cat, table[1], table[2], table[3], column_name)
    THEN Raised(cat, "ConstraintViolation")
    ELSE Returned([cat EXCEPT !.columns = @ \cup
             {[fqdn |-> <<table[1], table[2], table[3], column_name>>,
               data_type |-> data_type, sort_order |-> sort_order]}])

\* The foreign_keys rows of an ordered pair of columns.
ForeignKeyRows(cat, source_fqdn, target_fqdn) ==
    {k \in 1..Len(cat.foreign_keys) :
        /\ cat.foreign_keys[k].source = source_fqdn
        /\ cat.foreign_keys[k].target = target_fqdn}

\* An INSERT into the foreign_keys table.  The table is created with a
\* primary key on id (assigned by the store: the row's position here), the
\* two references to columns.id and NOT NULL columns; it has no unique
\* constraint on (source_column_id, target_column_id), so a row whose two
\* columns exist violates nothing.
insert_foreign_keys(cat, row) ==
    Returned([cat EXCEPT !.foreign_keys = Append(@, row)])

\* add_foreign_key: one new row for the ordered pair; what the store raises
\* on the insert propagates.
add_foreign_key(cat, source_column, target_column) ==
    insert_foreign_keys(cat, [source |-> source_column.fqdn,
                              target |-> target_column.fqdn])

\* CatForeignKey.fqdn: the source column's fqdn followed by the target's.
fqdn(fk) == fk.source \o fk.target

\* remove_foreign_key: removes the pair's row if there is one, else nothing.
remove_foreign_key(cat, source_column, target_column) ==
    LET keep(row) == ~(row.source = source_column.fqdn /\ row.target = target_column.fqdn)
    IN  Returned([cat EXCEPT !.foreign_keys = SelectSeq(@, keep)])

\* get_foreign_key: truthy iff the eight names resolve to a source column and
\* a target column that a foreign key joins; never raises.
get_foreign_key(cat, s1, s2, s3, s4, t1, t2, t3, t4) ==
    /\ has_column(cat, s1, s2, s3, s4)
    /\ has_column(cat, t1, t2, t3, t4)
    /\ ForeignKeyRows(cat, get_column(cat, s1, s2, s3, s4).fqdn,
                           get_column(cat, t1, t2, t3, t4).fqdn) # {}

(***************************************************************************)
(* Import records.  A record is a function from the names of the fields it *)
(* carries to their values ("field" in obj is: "field" \in DOMAIN obj); a  *)
(* source or target stanza is such a function too.                         *)
(***************************************************************************)
Has(obj, field) == field \in DOMAIN obj

\* The fields of `fields`, in order, that obj does not carry.
Missing(obj, fields) ==
    LET absent(f) == ~Has(obj, f) IN SelectSeq(fields, absent)

\* Validation errors.  The code formats them as strings; here the parts a
\* string is built from are kept apart:
\*   "no '<field>' field"                  NoField(field, "")
\*   "no '<field>' field in <where>"       NoField(field, where)
\*   "unknown type '<t>'"                  UnknownType(t)
\*   "<kind> <path> is already defined"    AlreadyDefined(kind, path)
\*   "'<stanza>' column <path> does not exist"   DoesNotExist(stanza, path)
NoField(field, where) ==
    [msg |-> "no field", field |-> field, where |-> where, path |-> <<>>]
UnknownType(t) ==
    [msg |-> "unknown type", field |-> "type", where |-> t, path |-> <<>>]
AlreadyDefined(kind, path) ==
    [msg |-> "is already defined", field |-> "", where |-> kind, path |-> path]
DoesNotExist(stanza_name, path) ==
    [msg |-> "does not exist", field |-> "", where |-> stanza_name, path |-> path]

NoFieldErrors(obj, fields, where) ==
    LET m == Missing(obj, fields) IN [k \in 1..Len(m) |-> NoField(m[k], where)]

\* What a validator gives back: the errors, in the order the code appends
\* them, and the number of catalog lookups it made.
Validated(errors, lookups) == [errors |-> errors, lookups |-> lookups]

StanzaFields == <<"database", "schema", "table", "column">>
SchemaFields == <<"database", "schema">>
TableFields == <<"database", "schema", "table">>
ColumnFields == <<"database", "schema", "table", "column", "data_type", "sort_order">>

\* Mutant: the column is looked up by schema, table and column name in any
\* source.
_validate_column_stanza_any_source(cat, stanza_name, stanza) ==
    LET errors == NoFieldErrors(stanza, StanzaFields, stanza_name) IN
    IF errors # <<>> THEN Validated(errors, 0)
    ELSE IF \E c \in cat.columns : /\ SameName(c.fqdn[2], stanza.schema)
                                   /\ SameName(c.fqdn[3], stanza.table)
                                   /\ SameName(c.fqdn[4], stanza.column)
         THEN Validated(<<>>, 1)
         ELSE Validated(<<DoesNotExist(stanza_name,
                  <<stanza.database, stanza.schema, stanza.table, stanza.column>>)>>, 1)

_validate_column_stanza(cat, stanza_name, stanza) ==
    LET errors == NoFieldErrors(stanza, StanzaFields, stanza_name) IN
    IF errors # <<>> THEN Validated(errors, 0)
    ELSE IF has_column(cat, stanza.database, stanza.schema, stanza.table, stanza.column)
         THEN Validated(<<>>, 1)
         ELSE Validated(<<DoesNotExist(stanza_name,
                  <<stanza.database, stanza.schema, stanza.table, stanza.column>>)>>, 1)

\* Mutant: stops at the source stanza's errors.
_validate_foreign_key_first_only(cat, obj) ==
    LET src == IF ~Has(obj, "source")
               THEN Validated(<<NoField("source", "foreign_key")>>, 0)
               ELSE _validate_column_stanza(cat, "source", obj.source)
        tgt == IF ~Has(obj, "target")
               THEN Validated(<<NoField("target", "foreign_key")>>, 0)
               ELSE _validate_column_stanza(cat, "target", obj.target)
    IN  IF src.errors # <<>> THEN src
        ELSE Validated(tgt.errors, src.lookups + tgt.lookups)

_validate_foreign_key(cat, obj) ==
    LET src == IF ~Has(obj, "source")
               THEN Validated(<<NoField("source", "foreign_key")>>, 0)
               ELSE _validate_column_stanza(cat, "source", obj.source)
        tgt == IF ~Has(obj, "target")
               THEN Validated(<<NoField("target", "foreign_key")>>, 0)
               ELSE _validate_column_stanza(cat, "target", obj.target)
    IN  Validated(src.errors \o tgt.errors, src.lookups + tgt.lookups)

\* Mutant: a schema name taken in any source counts as defined.
_validate_schema_any_source(cat, obj) ==
    LET errors == NoFieldErrors(obj, SchemaFields, "") IN
    IF errors # <<>> THEN Validated(errors, 0)
    ELSE IF \E r \in cat.schemas : SameName(r[2], obj.schema)
         THEN Validated(<<AlreadyDefined("schema", <<obj.database, obj.schema>>)>>, 1)
         ELSE Validated(<<>>, 1)

\* Mutant: an existing schema is no error.
_validate_schema_upsert(cat, obj) ==
    LET errors == NoFieldErrors(obj, SchemaFields, "") IN
    IF errors # <<>> THEN Validated(errors, 0) ELSE Validated(<<>>, 1)

_validate_schema(cat, obj) ==
    LET errors == NoFieldErrors(obj, SchemaFields, "") IN
    IF errors # <<>> THEN Validated(errors, 0)
    ELSE IF has_schema(cat, obj.database, obj.schema)
         THEN Validated(<<AlreadyDefined("schema", <<obj.database, obj.schema>>)>>, 1)
         ELSE Validated(<<>>, 1)

_validate_table(cat, obj) ==
    LET errors == NoFieldErrors(obj, TableFields, "") IN
    IF errors # <<>> THEN Validated(errors, 0)
    ELSE IF has_table(cat, obj.database, obj.schema, obj.table)
         THEN Validated(<<AlreadyDefined("table",
                  <<obj.database, obj.schema, obj.table>>)>>, 1)
         ELSE Validated(<<>>, 1)

\* Mutant: the sort_order check is left out.
_validate_column_no_sort_order(cat, obj) ==
    LET errors == NoFieldErrors(obj,
                      <<"database", "schema", "table", "column", "data_type">>, "") IN
    IF errors # <<>> THEN Validated(errors, 0)
    ELSE IF has_column(cat, obj.database, obj.schema, obj.table, obj.column)
         THEN Validated(<<AlreadyDefined("column",
                  <<obj.database, obj.schema, obj.table, obj.column>>)>>, 1)
         ELSE Validated(<<>>, 1)

_validate_column(cat, obj) ==
    LET errors == NoFieldErrors(obj, ColumnFields, "") IN
    IF errors # <<>> THEN Validated(errors, 0)
    ELSE IF has_column(cat, obj.database, obj.schema, obj.table, obj.column)
         THEN Validated(<<AlreadyDefined("column",
                  <<obj.database, obj.schema, obj.table, obj.column>>)>>, 1)
         ELSE Validated(<<>>, 1)

\* Mutant: the hyphenated tag is taken for a foreign key too.
validate_import_obj_hyphen(cat, obj) ==
    IF ~Has(obj, "type") THEN Validated(<<NoField("type", "object")>>, 0)
    ELSE IF obj.type \in {"foreign_key", "foreign-key"} THEN _validate_foreign_key(cat, obj)
    ELSE IF obj.type = "schema" THEN _validate_schema(cat, obj)
    ELSE IF obj.type = "table" THEN _validate_table(cat, obj)
    ELSE IF obj.type = "column" THEN _validate_column(cat, obj)
    ELSE Validated(<<UnknownType(obj.type)>>, 0)

validate_import_obj(cat, obj) ==
    IF ~Has(obj, "type") THEN Validated(<<NoField("type", "object")>>, 0)
    ELSE IF obj.type = "foreign_key" THEN _validate_foreign_key(cat, obj)
    ELSE IF obj.type = "schema" THEN _validate_schema(cat, obj)
    ELSE IF obj.type = "table" THEN _validate_table(cat, obj)
    ELSE IF obj.type = "column" THEN _validate_column(cat, obj)
    ELSE Validated(<<UnknownType(obj.type)>>, 0)

(***************************************************************************)
(* Applying a record.                                                      *)
(***************************************************************************)
\* class Action(str, Enum): the values Action(...) accepts.
ActionValues == {"add", "remove"}
\* str(Action.add): the str() of a member of an Enum with a str mixin is its
\* qualified name, not its value.
str_Action_add == "Action.add"

HasAll(obj, fields) == Missing(obj, fields) = <<>>

\* Mutant: the two columns are handed over in the wrong order.
consume_foreign_key_swapped(cat, obj) ==
    IF ~Has(obj, "source") \/ ~HasAll(obj.source, StanzaFields)
    THEN Raised(cat, "KeyError")
    ELSE IF ~has_column(cat, obj.source.database, obj.source.schema,
                        obj.source.table, obj.source.column)
    THEN Raised(cat, "NoResultFound")
    ELSE IF ~Has(obj, "target") \/ ~HasAll(obj.target, StanzaFields)
    THEN Raised(cat, "KeyError")
    ELSE IF ~has_column(cat, obj.target.database, obj.target.schema,
                        obj.target.table, obj.target.column)
    THEN Raised(cat, "NoResultFound")
    ELSE
      LET source_column == get_column(cat, obj.source.database, obj.source.schema,
                                      obj.source.table, obj.source.column)
          target_column == get_column(cat, obj.target.database, obj.target.schema,
                                      obj.target.table, obj.target.column)
          action == IF Has(obj, "action") THEN obj.action ELSE str_Action_add
      IN  IF action \notin ActionValues THEN Raised(cat, "ValueError")
          ELSE IF action = "add"
               THEN add_foreign_key(cat, target_column, source_column)
               ELSE remove_foreign_key(cat, target_column, source_column)

\* Mutant: the action is ignored, every record is an add.
consume_foreign_key_always_add(cat, obj) ==
    IF ~Has(obj, "source") \/ ~HasAll(obj.source, StanzaFields)
    THEN Raised(cat, "KeyError")
    ELSE IF ~has_column(cat, obj.source.database, obj.source.schema,
                        obj.source.table, obj.source.column)
    THEN Raised(cat, "NoResultFound")
    ELSE IF ~Has(obj, "target") \/ ~HasAll(obj.target, StanzaFields)
    THEN Raised(cat, "KeyError")
    ELSE IF ~has_column(cat, obj.target.database, obj.target.schema,
                        obj.target.table, obj.target.column)
    THEN Raised(cat, "NoResultFound")
    ELSE
      LET source_column == get_column(cat, obj.source.database, obj.source.schema,
                                      obj.source.table, obj.source.column)
          target_column == get_column(cat, obj.target.database, obj.target.schema,
                                      obj.target.table, obj.target.column)
          action == IF Has(obj, "action") THEN obj.action ELSE str_Action_add
      IN  IF action \notin ActionValues THEN Raised(cat, "ValueError")
          ELSE add_foreign_key(cat, source_column, target_column)

consume_foreign_key(cat, obj) ==
    IF ~Has(obj, "source") \/ ~HasAll(obj.source, StanzaFields)
    THEN Raised(cat, "KeyError")
    ELSE IF ~has_column(cat, obj.source.database, obj.source.schema,
                        obj.source.table, obj.source.column)
    THEN Raised(cat, "NoResultFound")
    ELSE IF ~Has(obj, "target") \/ ~HasAll(obj.target, StanzaFields)
    THEN Raised(cat, "KeyError")
    ELSE IF ~has_column(cat, obj.target.database, obj.target.schema,
                        obj.target.table, obj.target.column)
    THEN Raised(cat, "NoResultFound")
    ELSE
      LET source_column == get_column(cat, obj.source.database, obj.source.schema,
                                      obj.source.table, obj.source.column)
          target_column == get_column(cat, obj.target.database, obj.target.schema,
                                      obj.target.table, obj.target.column)
          action == IF Has(obj, "action") THEN obj.action ELSE str_Action_add
      IN  IF action \notin ActionValues THEN Raised(cat, "ValueError")
          ELSE IF action = "add"
               THEN add_foreign_key(cat, source_column, target_column)
               ELSE remove_foreign_key(cat, source_column, target_column)

\* Mutant: the schema is added under the name the record gives, without
\* resolving the source.
consume_schema_unresolved(cat, obj) ==
    IF ~Has(obj, "database") \/ ~Has(obj, "schema") THEN Raised(cat, "KeyError")
    ELSE add_schema(cat, obj.schema, obj.database)

consume_schema(cat, obj) ==
    IF ~Has(obj, "database") THEN Raised(cat, "KeyError")
    ELSE IF ~has_source(cat, obj.database) THEN Raised(cat, "NoResultFound")
    ELSE IF ~Has(obj, "schema") THEN Raised(cat, "KeyError")
    ELSE add_schema(cat, obj.schema, get_source(cat, obj.database))

\* Mutant: a table record whose schema is missing creates the schema too.
consume_table_creating_schema(cat, obj) ==
    IF ~HasAll(obj, SchemaFields) THEN Raised(cat, "KeyError")
    ELSE IF ~has_source(cat, obj.database) THEN Raised(cat, "NoResultFound")
    ELSE IF ~Has(obj, "table") THEN Raised(cat, "KeyError")
    ELSE LET with_schema ==
                 IF has_schema(cat, obj.database, obj.schema) THEN cat
                 ELSE add_schema(cat, obj.schema, get_source(cat, obj.database)).catalog
         IN  add_table(with_schema, obj.table,
                       get_schema(with_schema, obj.database, obj.schema))

consume_table(cat, obj) ==
    IF ~HasAll(obj, SchemaFields) THEN Raised(cat, "KeyError")
    ELSE IF ~has_schema(cat, obj.database, obj.schema) THEN Raised(cat, "NoResultFound")
    ELSE IF ~Has(obj, "table") THEN Raised(cat, "KeyError")
    ELSE add_table(cat, obj.table, get_schema(cat, obj.database, obj.schema))

\* Mutant: the column is stored without the record's data_type.
consume_column_no_data_type(cat, obj) ==
    IF ~HasAll(obj, TableFields) THEN Raised(cat, "KeyError")
    ELSE IF ~has_table(cat, obj.database, obj.schema, obj.table)
    THEN Raised(cat, "NoResultFound")
    ELSE IF ~HasAll(obj, ColumnFields) THEN Raised(cat, "KeyError")
    ELSE add_column(cat, obj.column, "", obj.sort_order,
                    get_table(cat, obj.database, obj.schema, obj.table))

consume_column(cat, obj) ==
    IF ~HasAll(obj, TableFields) THEN Raised(cat, "KeyError")
    ELSE IF ~has_table(cat, obj.database, obj.schema, obj.table)
    THEN Raised(cat, "NoResultFound")
    ELSE IF ~HasAll(obj, ColumnFields) THEN Raised(cat, "KeyError")
    ELSE add_column(cat, obj.column, obj.data_type, obj.sort_order,
                    get_table(cat, obj.database, obj.schema, obj.table))

\* Mutant: removing a foreign key deletes its source column with it.
consume_import_obj_cascading(cat, obj) ==
    IF ~Has(obj, "type") THEN Raised(cat, "KeyError")
    ELSE IF obj.type = "foreign_key"
    THEN LET r == consume_foreign_key(cat, obj) IN
         IF r.exc = "" /\ obj.action = "remove"
         THEN Returned([r.catalog EXCEPT !.columns =
                  @ \ ColumnRows(cat, obj.source.database, obj.source.schema,
                                 obj.source.table, obj.source.column)])
         ELSE r
    ELSE IF obj.type = "schema" THEN consume_schema(cat, obj)
    ELSE IF obj.type = "table" THEN consume_table(cat, obj)
    ELSE IF obj.type = "column" THEN consume_column(cat, obj)
    ELSE Raised(cat, "ValueError")

consume_import_obj(cat, obj) ==
    IF ~Has(obj, "type") THEN Raised(cat, "KeyError")
    ELSE IF obj.type = "foreign_key" THEN consume_foreign_key(cat, obj)
    ELSE IF obj.type = "schema" THEN consume_schema(cat, obj)
    ELSE IF obj.type = "table" THEN consume_table(cat, obj)
    ELSE IF obj.type = "column" THEN consume_column(cat, obj)
    ELSE Raised(cat, "ValueError")

(***************************************************************************)
(* The records a stream may hold.                                          *)
(***************************************************************************)
Drop(obj, fields) == [f \in DOMAIN obj \ fields |-> obj[f]]

Stanza(database, schema, table, column) ==
    [database |-> database, schema |-> schema, table |-> table, column |-> column]

ColA == Stanza("s1", "sc1", "t1", "c1")
ColB == Stanza("s1", "sc1", "t1", "c2")
ColX == Stanza("s2", "sc1", "t1", "c1")
\* ColA's names with one level changed to a schema, a table that is never there.
ColSc3 == Stanza("s1", "sc3", "t1", "c1")
ColT3 == Stanza("s1", "sc1", "t3", "c1")

SchemaRecord(database, schema) ==
    [type |-> "schema", database |-> database, schema |-> schema]
TableRecord(database, schema, table) ==
    [type |-> "table", database |-> database, schema |-> schema, table |-> table]
ColumnRecord(st, data_type, sort_order) ==
    [type |-> "column", database |-> st.database, schema |-> st.schema,
     table |-> st.table, column |-> st.column,
     data_type |-> data_type, sort_order |-> sort_order]
ForeignKeyRecord(type, source, target) ==
    [type |-> type, source |-> source, target |-> target]
WithAction(obj, action) ==
    [f \in DOMAIN obj \cup {"action"} |-> IF f = "action" THEN action ELSE obj[f]]

SchemaRecords ==
    {SchemaRecord("s1", "sc1"), SchemaRecord("s2", "sc1")}
      \cup {Drop(SchemaRecord("s1", "sc1"), d) :
              d \in {{"database"}, {"schema"}, {"database", "schema"}}}

TableRecords ==
    {TableRecord("s1", "sc1", "t1"), TableRecord("s1", "sc1", "T1"),
     TableRecord("s2", "sc1", "t1")}
      \cup {Drop(TableRecord("s1", "sc1", "t1"), d) :
              d \in (SUBSET {"database", "schema", "table"}) \ {{}}}

ColumnRecords ==
    {ColumnRecord(ColA, "text", 0), ColumnRecord(ColA, "Int", 1),
     ColumnRecord(ColB, "text", 0), ColumnRecord(ColX, "text", 0)}
      \cup {Drop(ColumnRecord(ColA, "text", 0), {f}) :
              f \in {"database", "schema", "table", "column", "data_type", "sort_order"}}
      \cup {Drop(ColumnRecord(ColA, "text", 0), {"database", "sort_order"}),
            Drop(ColumnRecord(ColA, "text", 0),
                 {"database", "schema", "table", "column", "data_type", "sort_order"})}

ForeignKeyPairs == {<<ColA, ColB>>, <<ColB, ColA>>, <<ColX, ColA>>}

ForeignKeyRecords ==
    {ForeignKeyRecord("foreign_key", p[1], p[2]) : p \in ForeignKeyPairs}
      \cup {WithAction(ForeignKeyRecord("foreign_key", p[1], p[2]), a) :
              p \in ForeignKeyPairs, a \in {"add", "remove"}}
      \cup {WithAction(ForeignKeyRecord("foreign_key", ColA, ColB), "bogus")}
      \cup {Drop(ForeignKeyRecord("foreign_key", ColA, ColB), d) :
              d \in {{"source"}, {"target"}, {"source", "target"}}}
      \cup {ForeignKeyRecord("foreign_key", Drop(ColA, {"database"}), ColB),
            ForeignKeyRecord("foreign_key", ColA, Drop(ColB, {"column"})),
            ForeignKeyRecord("foreign_key",
                Drop(ColA, {"database", "schema", "table", "column"}),
                Drop(ColB, {"schema", "table"})),
            ForeignKeyRecord("foreign_key", Drop(ColX, {"schema"}), ColX)}
      \cup {WithAction(ForeignKeyRecord("foreign_key", ColSc3, ColA), "add"),
            WithAction(ForeignKeyRecord("foreign_key", ColA, ColT3), "add")}

\* Records the code takes for none of its four types: the hyphenated tag the
\* tests write, an unknown tag, and no tag at all.
OtherRecords ==
    {ForeignKeyRecord("foreign-key", ColA, ColB),
     Drop(ForeignKeyRecord("foreign-key", ColA, ColB), {"target"}),
     [type |-> "bogus", database |-> "s1", schema |-> "sc1"],
     Drop(ForeignKeyRecord("foreign_key", ColA, ColB), {"type"}),
     Drop(SchemaRecord("s1", "sc1"), {"type"})}

Records ==
    SchemaRecords \cup TableRecords \cup ColumnRecords
      \cup ForeignKeyRecords \cup OtherRecords

(***************************************************************************)
(* Strings, for parse_spec.  A string is the sequence of its pieces: a     *)
(* piece is a colon or a run of characters without a colon (a single       *)
(* letter, or a whole catalog name).  An Optional[str] is None or Str(s).  *)
(***************************************************************************)
None == [some |-> FALSE, str |-> <<>>]
Str(s) == [some |-> TRUE, str |-> s]

\* Python truth: None and the empty string are falsy.
Truthy(v) == v.some /\ v.str # <<>>
\* value or default
Or(value, default) == IF Truthy(value) THEN value ELSE default

\* The name a string spells, for a catalog lookup: a string of one piece is
\* that name; None, the empty string and anything else name nothing.
Text(v) == IF v.some /\ Len(v.str) = 1 THEN v.str[1] ELSE ""

\* query_string.split(":"): the runs between the colons, empty ones kept;
\* the empty string gives one empty run.
RECURSIVE split(_)
split(s) ==
    IF \A k \in 1..Len(s) : s[k] # ":" THEN <<s>>
    ELSE LET k == CHOOSE j \in 1..Len(s) :
                      s[j] = ":" /\ \A h \in 1..(j - 1) : s[h] # ":"
         IN  <<SubSeq(s, 1, k - 1)>> \o split(SubSeq(s, k + 1, Len(s)))

entity_names == <<"source", "schema", "table", "column">>

\* The Spec dataclass.
SpecOf(kind, source, schema, table, column) ==
    [kind |-> kind, source |-> source, schema |-> schema,
     table |-> table, column |-> column]

\* Mutant: the components after the fourth are dropped instead of refused.
parse_spec_truncating(query_string, default) ==
    LET parts == split(query_string)
        n == IF Len(parts) > 4 THEN 4 ELSE Len(parts)
        value(k) == IF k <= n THEN Str(parts[k]) ELSE default
    IN  [exc |-> "",
         spec |-> SpecOf(entity_names[n], Or(value(1), default),
                         Or(value(2), default), Or(value(3), default),
                         Or(value(4), default))]

\* Mutant: the kind is that of the last component that is not empty.
parse_spec_kind_of_last_named(query_string, default) ==
    LET parts == split(query_string)
        value(k) == IF k <= Len(parts) THEN Str(parts[k]) ELSE default
        named == {k \in 1..Len(parts) : parts[k] # <<>>}
        last_named == IF named = {} THEN 1
                      ELSE CHOOSE k \in named : \A h \in named : h <= k
    IN  IF Len(parts) > 4 THEN [exc |-> "ValueError"]
        ELSE [exc |-> "",
              spec |-> SpecOf(entity_names[last_named], Or(value(1), default),
                              Or(value(2), default), Or(value(3), default),
                              Or(value(4), default))]

\* Mutant: a component is stored as it was split, an empty one too.
parse_spec_keeping_empty(query_string, default) ==
    LET parts == split(query_string)
        value(k) == IF k <= Len(parts) THEN Str(parts[k]) ELSE default
    IN  IF Len(parts) > 4 THEN [exc |-> "ValueError"]
        ELSE [exc |-> "",
              spec |-> SpecOf(entity_names[Len(parts)], value(1), value(2),
                              value(3), value(4))]

\* parse_spec: more than four components is a ValueError; the kind is the
\* entity name at the number of components; zip_longest pairs the four entity
\* names with the components, filling with the default, and each field is
\* `value or default`.
parse_spec(query_string, default) ==
    LET parts == split(query_string)
        value(k) == IF k <= Len(parts) THEN Str(parts[k]) ELSE default
    IN  IF Len(parts) > 4 THEN [exc |-> "ValueError"]
        ELSE [exc |-> "",
              spec |-> SpecOf(entity_names[Len(parts)], Or(value(1), default),
                              Or(value(2), default), Or(value(3), default),
                              Or(value(4), default))]

(***************************************************************************)
(* export_format.  An object is a row with its class.                      *)
(***************************************************************************)
Object(class, row) == [class |-> class, row |-> row]

\* An Optional[Action] is "None" or one of ActionValues.
\* Mutant: the action is stamped whether or not one was passed.
attach_action_always(obj, action) ==
    [f \in DOMAIN obj \cup {"action"} |->
        IF f # "action" THEN obj[f]
        ELSE IF action = "None" THEN "add" ELSE action]

attach_action(obj, action) ==
    IF action # "None"
    THEN [f \in DOMAIN obj \cup {"action"} |-> IF f = "action" THEN action ELSE obj[f]]
    ELSE obj

\* Mutant: the two stanzas change places.
export_format_reversed(obj, action) ==
    IF obj.class = "CatForeignKey"
    THEN [exc |-> "",
          dict |-> attach_action(
              [type |-> "foreign_key",
               source |-> Stanza(obj.row.target[1], obj.row.target[2],
                                 obj.row.target[3], obj.row.target[4]),
               target |-> Stanza(obj.row.source[1], obj.row.source[2],
                                 obj.row.source[3], obj.row.source[4])],
              action)]
    ELSE [exc |-> "NotImplementedError"]

export_format(obj, action) ==
    IF obj.class = "CatForeignKey"
    THEN [exc |-> "",
          dict |-> attach_action(
              [type |-> "foreign_key",
               source |-> Stanza(obj.row.source[1], obj.row.source[2],
                                 obj.row.source[3], obj.row.source[4]),
               target |-> Stanza(obj.row.target[1], obj.row.target[2],
                                 obj.row.target[3], obj.row.target[4])],
              action)]
    ELSE [exc |-> "NotImplementedError"]

(***************************************************************************)
(* Search and references (specification, section 4.3).  A pattern is an    *)
(* Optional[str]; the ones the commands pass are None, "%" and a whole     *)
(* name.  Matching is SQL LIKE without regard to case: "%" matches every   *)
(* name, a name matches itself, None matches nothing.                      *)
(***************************************************************************)
Like(pattern, name) ==
    /\ pattern.some
    /\ Len(pattern.str) = 1
    /\ (pattern.str[1] = "%" \/ SameName(pattern.str[1], name))

\* The four patterns against the four names of a column's fqdn.
LikeFqdn(names, column, table, schema, source) ==
    /\ Like(source, names[1])
    /\ Like(schema, names[2])
    /\ Like(table, names[3])
    /\ Like(column, names[4])

\* search_column: the columns whose four names match the four patterns.
search_column(cat, column, table, schema, source) ==
    {c \in cat.columns : LikeFqdn(c.fqdn, column, table, schema, source)}

\* query_references_to: the foreign keys whose target column matches.
query_references_to(cat, column, table, schema, source) ==
    LET to(row) == LikeFqdn(row.target, column, table, schema, source)
    IN  SelectSeq(cat.foreign_keys, to)

\* query_references_from: the foreign keys whose source column matches.
query_references_from(cat, column, table, schema, source) ==
    LET from(row) == LikeFqdn(row.source, column, table, schema, source)
    IN  SelectSeq(cat.foreign_keys, from)

\* Python's order of the names in use (code points: capitals first).
NameOrder ==
    <<"S1", "T1", "c1", "c2", "s1", "s2", "sc1", "sc3", "t1", "t1c1", "t2", "t3">>

Rank(name) == CHOOSE k \in 1..Len(NameOrder) : NameOrder[k] = name

\* a < b for two tuples of names of the same length.
TupleLess(a, b) ==
    \E k \in 1..Len(a) :
        /\ \A h \in 1..(k - 1) : a[h] = b[h]
        /\ Rank(a[k]) < Rank(b[k])

\* sorted(S) for a set of tuples of names.
RECURSIVE sorted(_)
sorted(S) ==
    IF S = {} THEN <<>>
    ELSE LET least == CHOOSE a \in S : \A b \in S \ {a} : TupleLess(a, b)
         IN  <<least>> \o sorted(S \ {least})

\* "{}:{}:{}:{}".format(...) and "{}:{}:{}".format(...): the names joined by
\* colons.
RECURSIVE Line(_)
Line(names) ==
    IF Len(names) <= 1 THEN names
    ELSE <<Head(names), ":">> \o Line(Tail(names))

Lines(tuples) == [k \in 1..Len(tuples) |-> Line(tuples[k])]

(***************************************************************************)
(* State.                                                                  *)
(***************************************************************************)
VARIABLES
    catalog,     \* the catalog
    pc,          \* the last call: "idle" (none yet, or not an import),
                 \* "running" (import_from_object_stream is in its loop),
                 \* "raised" (it raised), "done" (it returned)
    i,           \* the loop's index
    exc,         \* the exception the last call raised, "" for none
    last,        \* <<obj>>: the record the loop read last; <<>> before the first
    log,         \* the validation errors the call logged, in order
    lookups,     \* catalog lookups made by the validation of the last record
    before,      \* the catalog when the last record was read
    validated,   \* records validated by this call
    applied,     \* records consume_import_obj applied in this call
    expected,    \* the call's first catalog with the records read so far
                 \* applied in order, each only if it was valid when read
    call         \* the last call of parse_spec, of export_format or of a
                 \* command that takes a spec: its arguments and its outcome

vars ==
    <<catalog, pc, i, exc, last, log, lookups, before, validated, applied, expected,
      call>>

NoCall == [op |-> "none"]

Init ==
    /\ catalog = EmptyCatalog
    /\ pc = "idle"
    /\ i = 0
    /\ exc = ""
    /\ last = <<>>
    /\ log = <<>>
    /\ lookups = 0
    /\ before = EmptyCatalog
    /\ validated = 0
    /\ applied = 0
    /\ expected = EmptyCatalog
    /\ call = NoCall

(***************************************************************************)
(* add_external_source (and the other add_<type>_source functions): one    *)
(* catalog.add_source call.                                                *)
(***************************************************************************)
AddSource(name) ==
    /\ pc # "running"
    /\ LET r == add_source(catalog, name) IN
         /\ catalog' = r.catalog
         /\ exc' = r.exc
    /\ pc' = "idle"
    /\ i' = 0
    /\ last' = <<>>
    /\ log' = <<>>
    /\ lookups' = 0
    /\ before' = catalog
    /\ validated' = 0
    /\ applied' = 0
    /\ expected' = catalog'
    /\ call' = NoCall

(***************************************************************************)
(* import_from_object_stream.                                              *)
(***************************************************************************)
\* Mutant: the errors are logged and the raise is forgotten.
import_step_no_raise(cat, obj) ==
    LET v == validate_import_obj(cat, obj) IN
    [catalog |-> cat, exc |-> "", log |-> v.errors,
     lookups |-> v.lookups, validated |-> 1, applied |-> 0]

\* One pass of the loop body on record obj: validate; on errors log them all
\* and raise IntegrityError; else consume.
import_step(cat, obj) ==
    LET v == validate_import_obj(cat, obj) IN
    IF v.errors # <<>>
    THEN [catalog |-> cat, exc |-> "IntegrityError", log |-> v.errors,
          lookups |-> v.lookups, validated |-> 1, applied |-> 0]
    ELSE LET c == consume_import_obj(cat, obj) IN
         [catalog |-> c.catalog, exc |-> c.exc, log |-> <<>>,
          lookups |-> v.lookups, validated |-> 1,
          applied |-> IF c.exc = "" THEN 1 ELSE 0]

\* The reference for `expected`: the record is applied iff it is valid.
ApplyIfValid(cat, obj) ==
    IF validate_import_obj(cat, obj).errors = <<>>
         /\ consume_import_obj(cat, obj).exc = ""
    THEN consume_import_obj(cat, obj).catalog
    ELSE cat

StartImport ==
    /\ pc # "running"
    /\ pc' = "running"
    /\ i' = 0
    /\ exc' = ""
    /\ last' = <<>>
    /\ log' = <<>>
    /\ lookups' = 0
    /\ before' = catalog
    /\ validated' = 0
    /\ applied' = 0
    /\ expected' = catalog
    /\ call' = NoCall
    /\ UNCHANGED catalog

ImportRecord(obj) ==
    /\ pc = "running"
    /\ i < MaxStream
    /\ Len(import_step(catalog, obj).catalog.foreign_keys) <= MaxForeignKeys
    /\ LET r == import_step(catalog, obj) IN
         /\ catalog' = r.catalog
         /\ exc' = r.exc
         /\ log' = log \o r.log
         /\ lookups' = r.lookups
         /\ validated' = validated + r.validated
         /\ applied' = applied + r.applied
         /\ pc' = IF r.exc = "" THEN "running" ELSE "raised"
         /\ i' = IF r.exc = "" THEN i + 1 ELSE i
    /\ last' = <<obj>>
    /\ before' = catalog
    /\ expected' = ApplyIfValid(expected, obj)
    /\ UNCHANGED call

\* The stream is exhausted: the call returns.
EndOfStream ==
    /\ pc = "running"
    /\ pc' = "done"
    /\ UNCHANGED <<catalog, i, exc, last, log, lookups, before, validated, applied,
                   expected, call>>

(***************************************************************************)
(* Scopes (specification, section 4.1).  What a block of statements did is *)
(* the catalog it left, the exception that left it ("" for none) and the   *)
(* trace of its resource events: "open" and "close" of the catalog,        *)
(* "session" and "release" of a scoped session, "begin" and "commit" or    *)
(* "rollback" of a scoped transaction, "write" for a repository call that  *)
(* added or removed a row.                                                 *)
(***************************************************************************)
Did(r, events) == [catalog |-> r.catalog, exc |-> r.exc, trace |-> events]

\* with catalog.managed_session: a scoped session, released on every exit,
\* without a commit of its own.
managed_session(body) ==
    [body EXCEPT !.trace = <<"session">> \o @ \o <<"release">>]

\* with catalog.commit_context: a scoped transaction, committed when the
\* block ends normally, rolled back (the catalog is as at entry) when an
\* exception leaves it.
commit_context(cat, body) ==
    IF body.exc = ""
    THEN [body EXCEPT !.trace = <<"begin">> \o @ \o <<"commit">>]
    ELSE [catalog |-> cat, exc |-> body.exc,
          trace |-> <<"begin">> \o body.trace \o <<"rollback">>]

\* catalog = open_catalog(...), then with closing(catalog): the catalog is
\* closed on every exit of the block.
closing(body) == [body EXCEPT !.trace = <<"open">> \o @ \o <<"close">>]

\* A repository call that writes, as a block: "write" when it returned.
Write(r) == Did(r, IF r.exc = "" THEN <<"write">> ELSE <<>>)

(***************************************************************************)
(* The commands that take a spec (cli.py).  Each parses its arguments      *)
(* first and opens the catalog afterwards; `opened` tells whether          *)
(* open_catalog was reached.                                               *)
(***************************************************************************)
Path(st) == <<st.database, ":", st.schema, ":", st.table, ":", st.column>>

\* The specs a command is given: two columns, a table, a source, a column
\* with two components left empty, and one component too many.
CliSpecs ==
    {Path(ColA), Path(ColB), <<"s1", ":", "sc1", ":", "t1">>, <<"s1">>,
     <<"s1", ":", ":", ":", "c1">>, Path(ColA) \o <<":", "c2">>}

\* A call that is not an import: whatever an import call left is gone.
OutsideImport(cat) ==
    /\ pc # "running"
    /\ pc' = "idle"
    /\ i' = 0
    /\ exc' = ""
    /\ last' = <<>>
    /\ log' = <<>>
    /\ lookups' = 0
    /\ before' = catalog
    /\ validated' = 0
    /\ applied' = 0
    /\ catalog' = cat
    /\ expected' = cat

\* Mutant: references-to prints the end of the edge that was asked about.
references_to_output_targets(cat, spec) ==
    LET fks == query_references_to(cat, spec.column, spec.table, spec.schema,
                                   spec.source)
    IN  Lines([k \in 1..Len(fks) |-> fks[k].target])

\* references-to prints the source column of each foreign key
\* query_references_to returns.
references_to_output(cat, spec) ==
    LET fks == query_references_to(cat, spec.column, spec.table, spec.schema,
                                   spec.source)
    IN  Lines([k \in 1..Len(fks) |-> fks[k].source])

\* target-of prints the target column of each foreign key
\* query_references_from returns.
target_of_output(cat, spec) ==
    LET fks == query_references_from(cat, spec.column, spec.table, spec.schema,
                                     spec.source)
    IN  Lines([k \in 1..Len(fks) |-> fks[k].target])

\* columns prints the columns search_column returns, sorted.
search_columns_output(cat, spec) ==
    Lines(sorted({c.fqdn : c \in search_column(cat, spec.column, spec.table,
                                               spec.schema, spec.source)}))

\* Mutant: tables looks the tables up by their own names.
search_tables_output_by_table(cat, spec) ==
    Lines(sorted({t \in cat.tables : /\ Like(spec.source, t[1])
                                     /\ Like(spec.schema, t[2])
                                     /\ Like(spec.table, t[3])}))

\* tables collects (source, schema, table) of each column search_column
\* returns into a set and prints the set, sorted.
search_tables_output(cat, spec) ==
    LET tables == {SubSeq(col.fqdn, 1, 3) :
                     col \in search_column(cat, spec.column, spec.table,
                                           spec.schema, spec.source)}
    IN  Lines(sorted(tables))

\* What the command prints on the catalog for the spec it parsed.
command_output(op, cat, spec) ==
    CASE op = "references-to" -> references_to_output(cat, spec)
      [] op = "target-of" -> target_of_output(cat, spec)
      [] op = "columns" -> search_columns_output(cat, spec)
      [] op = "tables" -> search_tables_output(cat, spec)

\* references-to, target-of, columns and tables: parse_spec, then
\* open_catalog and, inside `with closing(catalog)`, the query, whose
\* results are printed one to a line.
QueryCommand(op, query, default) ==
    LET p == parse_spec(query, default) IN
    /\ OutsideImport(catalog)
    /\ call' = IF p.exc # ""
               THEN [op |-> op, argv |-> <<query>>, exc |-> p.exc, opened |-> FALSE]
               ELSE [op |-> op, argv |-> <<query>>, exc |-> "", opened |-> TRUE,
                     spec |-> p.spec, printed |-> command_output(op, catalog, p.spec)]

references_to(column) == QueryCommand("references-to", column, None)
target_of(column) == QueryCommand("target-of", column, None)
search_columns(query) == QueryCommand("columns", query, Str(<<"%">>))
search_tables(query) == QueryCommand("tables", query, Str(<<"%">>))

\* add-foreign-key: both specs are parsed and must be of kind column (else
\* exit code 126); then the catalog is opened, the two columns are looked up,
\* the key is added and its export format is printed.
add_foreign_key_outcome(cat, source, target) ==
    LET source_spec == parse_spec(source, None)
        target_spec == parse_spec(target, None)
        unopened(e) == [catalog |-> cat, exc |-> e, opened |-> FALSE, trace |-> <<>>]
        failed(e) ==
            [catalog |-> cat, exc |-> e, opened |-> TRUE,
             trace |-> closing(managed_session(Did(Raised(cat, e), <<>>))).trace]
    IN  IF source_spec.exc # "" THEN unopened(source_spec.exc)
        ELSE IF source_spec.spec.kind # "column" THEN unopened("Exit(126)")
        ELSE IF target_spec.exc # "" THEN unopened(target_spec.exc)
        ELSE IF target_spec.spec.kind # "column" THEN unopened("Exit(126)")
        ELSE
          LET s == source_spec.spec
              t == target_spec.spec
          IN  IF ~has_column(cat, Text(s.source), Text(s.schema),
                             Text(s.table), Text(s.column))
              THEN failed("NoResultFound")
              ELSE IF ~has_column(cat, Text(t.source), Text(t.schema),
                                  Text(t.table), Text(t.column))
              THEN failed("NoResultFound")
              ELSE
                LET source_column == get_column(cat, Text(s.source), Text(s.schema),
                                                Text(s.table), Text(s.column))
                    target_column == get_column(cat, Text(t.source), Text(t.schema),
                                                Text(t.table), Text(t.column))
                    r == add_foreign_key(cat, source_column, target_column)
                    fk == r.catalog.foreign_keys[Len(r.catalog.foreign_keys)]
                IN  IF r.exc # "" THEN failed(r.exc)
                    ELSE [catalog |-> r.catalog, exc |-> "", opened |-> TRUE,
                          trace |-> closing(managed_session(Write(r))).trace,
                          printed |-> export_format(Object("CatForeignKey", fk),
                                                    "None").dict]

cli_add_foreign_key(source, target) ==
    LET r == add_foreign_key_outcome(catalog, source, target) IN
    /\ Len(r.catalog.foreign_keys) <= MaxForeignKeys
    /\ OutsideImport(r.catalog)
    /\ call' = [f \in (DOMAIN r \ {"catalog"}) \cup {"op", "argv"} |->
                  IF f = "op" THEN "add-foreign-key"
                  ELSE IF f = "argv" THEN <<source, target>>
                  ELSE r[f]]

(***************************************************************************)
(* parse_spec and export_format called on their own.                       *)
(***************************************************************************)
Alphabet == {"a", "b", ":"}

\* Every string of at most MaxSpecLen pieces, and the queries of test_parsing
\* that are longer.
SpecStrings ==
    UNION {[1..n -> Alphabet] : n \in 0..MaxSpecLen}
      \cup {<<"a", ":", "b", ":", "c", ":", "d">>,
            <<"a", ":", "b", ":", "c", ":", "d", ":", "e">>}

Defaults == {None, Str(<<"%">>), Str(<<>>)}

\* A call that has its arguments and no result yet.
Pending(op) == call.op = op /\ "result" \notin DOMAIN call

ParseSpec ==
    /\ Pending("parse_spec")
    /\ call' = [op |-> "parse_spec", query_string |-> call.query_string,
                default |-> call.default,
                result |-> parse_spec(call.query_string, call.default)]
    /\ UNCHANGED <<catalog, pc, i, exc, last, log, lookups, before, validated,
                   applied, expected>>

ExportFqdns ==
    {<<"s1", "sc1", "t1", "c1">>, <<"s1", "sc1", "t2", "t1c1">>,
     <<"s2", "sc1", "T1", "c1">>}

\* Foreign keys, and columns for the objects export_format does not handle.
ExportObjects ==
    {Object("CatForeignKey", [source |-> a, target |-> b]) : a, b \in ExportFqdns}
      \cup {Object("CatColumn", [fqdn |-> a, data_type |-> "Int", sort_order |-> 0]) :
              a \in ExportFqdns}

OptionalActions == {"None"} \cup ActionValues

ExportFormat ==
    /\ Pending("export_format")
    /\ call' = [op |-> "export_format", obj |-> call.obj, action |-> call.action,
                result |-> export_format(call.obj, call.action)]
    /\ UNCHANGED <<catalog, pc, i, exc, last, log, lookups, before, validated,
                   applied, expected>>

\* The catalog the tests set up: one table with two columns.
TestCatalog ==
    LET with_source == add_source(EmptyCatalog, "s1").catalog
        with_schema == add_schema(with_source, "sc1", "s1").catalog
        with_table == add_table(with_schema, "t1", <<"s1", "sc1">>).catalog
        with_c1 == add_column(with_table, "c1", "Int", 0, <<"s1", "sc1", "t1">>).catalog
    IN  add_column(with_c1, "c2", "Int", 1, <<"s1", "sc1", "t1">>).catalog

\* A catalog with more to search: the table t3 has no column, and the
\* schema sc3 has a table t1 with a column c1 of its own.
SearchCatalog ==
    LET with_t3 == add_table(TestCatalog, "t3", <<"s1", "sc1">>).catalog
        with_sc3 == add_schema(with_t3, "sc3", "s1").catalog
        with_table == add_table(with_sc3, "t1", <<"s1", "sc3">>).catalog
    IN  add_column(with_table, "c1", "Int", 0, <<"s1", "sc3", "t1">>).catalog

\* No call is under way, or parse_spec or export_format is about to be
\* applied to arguments drawn from SpecStrings x Defaults, from
\* ExportObjects x OptionalActions; the catalog is empty, the tests' or
\* SearchCatalog.
InitCalls ==
    /\ catalog \in {EmptyCatalog, TestCatalog, SearchCatalog}
    /\ pc = "idle"
    /\ i = 0
    /\ exc = ""
    /\ last = <<>>
    /\ log = <<>>
    /\ lookups = 0
    /\ before = catalog
    /\ validated = 0
    /\ applied = 0
    /\ expected = catalog
    /\ call \in {NoCall}
          \cup {[op |-> "parse_spec", query_string |-> q, default |-> d] :
                  q \in SpecStrings, d \in Defaults}
          \cup {[op |-> "export_format", obj |-> o, action |-> a] :
                  o \in ExportObjects, a \in OptionalActions}

Next ==
    \/ \E name \in SourceNames : AddSource(name)
    \/ StartImport
    \/ \E obj \in Records : ImportRecord(obj)
    \/ EndOfStream

Spec == Init /\ [][Next]_vars

\* The behaviours are of two kinds: parse_spec or export_format applied to
\* the arguments drawn for it, and the commands that take a spec run one
\* after the other on a catalog.
CommandLine == call.op \notin {"parse_spec", "export_format"}

NextCalls ==
    \/ ParseSpec
    \/ ExportFormat
    \/ CommandLine /\ \E column \in CliSpecs : references_to(column)
    \/ CommandLine /\ \E column \in CliSpecs : target_of(column)
    \/ CommandLine /\ \E query \in CliSpecs : search_columns(query)
    \/ CommandLine /\ \E query \in CliSpecs : search_tables(query)
    \/ CommandLine /\ \E source, target \in CliSpecs : cli_add_foreign_key(source, target)

SpecCalls == InitCalls /\ [][NextCalls]_vars

(***************************************************************************)
(* The entry points with their scopes: the add_<type>_source functions,    *)
(* scan_sources (api.py) and the commands add-<type>, import, scan and     *)
(* add-foreign-key (cli.py).                                               *)
(***************************************************************************)
SourceTypes ==
    {"sqlite", "postgresql", "mysql", "redshift", "snowflake", "athena",
     "bigquery", "oracle", "external"}

add_sqlite_source(cat, name) == managed_session(Write(add_source(cat, name)))
add_postgresql_source(cat, name) == commit_context(cat, Write(add_source(cat, name)))
add_mysql_source(cat, name) == commit_context(cat, Write(add_source(cat, name)))
add_redshift_source(cat, name) == commit_context(cat, Write(add_source(cat, name)))
add_snowflake_source(cat, name) == commit_context(cat, Write(add_source(cat, name)))
add_athena_source(cat, name) == commit_context(cat, Write(add_source(cat, name)))
add_bigquery_source(cat, name) == commit_context(cat, Write(add_source(cat, name)))
add_oracle_source(cat, name) == commit_context(cat, Write(add_source(cat, name)))
add_external_source(cat, name) == commit_context(cat, Write(add_source(cat, name)))

add_typed_source(source_type, cat, name) ==
    CASE source_type = "sqlite" -> add_sqlite_source(cat, name)
      [] source_type = "postgresql" -> add_postgresql_source(cat, name)
      [] source_type = "mysql" -> add_mysql_source(cat, name)
      [] source_type = "redshift" -> add_redshift_source(cat, name)
      [] source_type = "snowflake" -> add_snowflake_source(cat, name)
      [] source_type = "athena" -> add_athena_source(cat, name)
      [] source_type = "bigquery" -> add_bigquery_source(cat, name)
      [] source_type = "oracle" -> add_oracle_source(cat, name)
      [] source_type = "external" -> add_external_source(cat, name)

\* A call of add_<source_type>_source.
AddTypedSource(source_type, name) ==
    LET r == add_typed_source(source_type, catalog, name) IN
    /\ OutsideImport(r.catalog)
    /\ call' = [op |-> "add_source", source_type |-> source_type,
                exc |-> r.exc, opened |-> FALSE, trace |-> r.trace]

\* The commands add-sqlite ... add-external: the catalog is opened, and
\* inside closing and managed_session the function is called; the store's
\* IntegrityError on a name that exists is caught, reported and the
\* command returns.
cli_add_source_outcome(source_type, cat, name) ==
    LET r == add_typed_source(source_type, cat, name)
        caught == IF r.exc = "ConstraintViolation" THEN [r EXCEPT !.exc = ""] ELSE r
    IN  closing(managed_session(caught))

cli_add_source(source_type, name) ==
    LET r == cli_add_source_outcome(source_type, catalog, name) IN
    /\ OutsideImport(r.catalog)
    /\ call' = [op |-> "add-source", source_type |-> source_type,
                exc |-> r.exc, opened |-> TRUE, trace |-> r.trace]

\* import_from_object_stream run to its end on a whole stream.
RECURSIVE import_from_object_stream(_, _)
import_from_object_stream(cat, stream) ==
    IF stream = <<>> THEN Did(Returned(cat), <<>>)
    ELSE LET r == import_step(cat, Head(stream))
             wrote == IF r.applied = 1 THEN <<"write">> ELSE <<>>
         IN  IF r.exc # "" THEN Did(r, wrote)
             ELSE LET rest == import_from_object_stream(r.catalog, Tail(stream))
                  IN  [rest EXCEPT !.trace = wrote \o @]

\* Mutant: the session is released and the catalog closed at the end of the
\* block only, not when an exception leaves it.
import_from_stdin_outcome_unscoped(cat, stream) ==
    LET r == import_from_object_stream(cat, stream) IN
    IF r.exc = "" THEN closing(managed_session(r))
    ELSE [r EXCEPT !.trace = <<"open", "session">> \o @]

\* The import command: open_catalog, then the import inside closing and
\* managed_session.
import_from_stdin_outcome(cat, stream) ==
    closing(managed_session(import_from_object_stream(cat, stream)))

\* The streams the import command is given: empty, valid, valid then
\* invalid (a duplicate), one whose record passes validation and raises in
\* consume_import_obj, and foreign keys added and removed.
Streams ==
    {<<>>,
     <<SchemaRecord("s1", "sc1")>>,
     <<SchemaRecord("s1", "sc1"), SchemaRecord("s1", "sc1")>>,
     <<TableRecord("s1", "sc3", "t1")>>,
     <<ForeignKeyRecord("foreign_key", ColA, ColB)>>,
     <<WithAction(ForeignKeyRecord("foreign_key", ColA, ColB), "add")>>,
     <<WithAction(ForeignKeyRecord("foreign_key", ColA, ColB), "remove")>>}

import_from_stdin(stream) ==
    LET r == import_from_stdin_outcome(catalog, stream) IN
    /\ Len(r.catalog.foreign_keys) <= MaxForeignKeys
    /\ OutsideImport(r.catalog)
    /\ call' = [op |-> "import", stream |-> stream, exc |-> r.exc,
                opened |-> TRUE, trace |-> r.trace]

\* An Optional[List[str]] of source names.
NoNames == [some |-> FALSE, list |-> <<>>]
Names(list) == [some |-> TRUE, list |-> list]

\* The source_names scan_sources is given: None, the empty list, names
\* that exist or not, in one order and the other.
SourceNameLists ==
    {NoNames, Names(<<>>), Names(<<"s1">>), Names(<<"s3">>),
     Names(<<"s2", "s1">>), Names(<<"s1", "s2">>), Names(<<"s3", "s1">>),
     Names(<<"S1", "s3", "s2">>)}

\* catalog.get_sources(): every source, as a list.
RECURSIVE get_sources(_)
get_sources(S) ==
    IF S = {} THEN <<>>
    ELSE LET s == CHOOSE x \in S : \A y \in S : Rank(x) <= Rank(y)
         IN  <<s>> \o get_sources(S \ {s})

\* The first loop of scan_sources: get_source for each name in turn; a name
\* without a source is logged and skipped.
RECURSIVE resolve_sources(_, _)
resolve_sources(cat, names) ==
    IF names = <<>> THEN [sources |-> <<>>, errors |-> <<>>]
    ELSE LET rest == resolve_sources(cat, Tail(names)) IN
         IF has_source(cat, Head(names))
         THEN [rest EXCEPT !.sources = <<get_source(cat, Head(names))>> \o @]
         ELSE [rest EXCEPT !.errors = <<Head(names)>> \o @]

\* Mutant: when no name was found, every source is scanned.
sources_to_scan_falling_back(cat, source_names) ==
    IF source_names.some /\ Len(source_names.list) > 0
         /\ resolve_sources(cat, source_names.list).sources # <<>>
    THEN resolve_sources(cat, source_names.list)
    ELSE [sources |-> get_sources(cat.sources),
          errors |-> IF source_names.some
                     THEN resolve_sources(cat, source_names.list).errors
                     ELSE <<>>]

\* The sources scan_sources will scan, and the names it logged as not found.
sources_to_scan(cat, source_names) ==
    IF source_names.some /\ Len(source_names.list) > 0
    THEN resolve_sources(cat, source_names.list)
    ELSE [sources |-> get_sources(cat.sources), errors |-> <<>>]

\* The second loop: scanner.scan() for each source in turn; StopIteration
\* from a scan (the sources in `empty` have nothing to scan) becomes
\* NoMatchesError and ends the call.
RECURSIVE scan_each(_, _)
scan_each(sources, empty) ==
    IF sources = <<>> THEN [scanned |-> <<>>, exc |-> ""]
    ELSE IF Head(sources) \in empty
    THEN [scanned |-> <<Head(sources)>>, exc |-> "NoMatchesError"]
    ELSE LET rest == scan_each(Tail(sources), empty)
         IN  [rest EXCEPT !.scanned = <<Head(sources)>> \o @]

\* scan_sources: both loops inside managed_session.
scan_sources(cat, source_names, empty) ==
    LET found == sources_to_scan(cat, source_names)
        r == scan_each(found.sources, empty)
    IN  [managed_session(Did(Raised(cat, r.exc), <<>>)) EXCEPT
           !.catalog = cat] @@
        [scanned |-> r.scanned, errors |-> found.errors]

ScanSources(source_names, empty) ==
    LET r == scan_sources(catalog, source_names, empty) IN
    /\ OutsideImport(catalog)
    /\ call' = [op |-> "scan_sources", source_names |-> source_names,
                empty |-> empty, scanned |-> r.scanned, errors |-> r.errors,
                exc |-> r.exc, opened |-> FALSE, trace |-> r.trace]

\* The scan command: open_catalog, then inside closing: init_db and
\* scan_sources, whose NoMatchesError is caught and reported.
cli_scan_outcome(cat, source_names, empty) ==
    LET r == scan_sources(cat, source_names, empty)
        caught == IF r.exc = "NoMatchesError" THEN [r EXCEPT !.exc = ""] ELSE r
    IN  [caught EXCEPT !.trace = closing(caught).trace]

cli_scan(source_names, empty) ==
    LET r == cli_scan_outcome(catalog, source_names, empty) IN
    /\ OutsideImport(catalog)
    /\ call' = [op |-> "scan", source_names |-> source_names,
                empty |-> empty, scanned |-> r.scanned, errors |-> r.errors,
                exc |-> r.exc, opened |-> TRUE, trace |-> r.trace]

\* The entry points are called one after the other on a catalog that is
\* empty or the tests'.
InitEntry ==
    /\ catalog \in {EmptyCatalog, TestCatalog}
    /\ pc = "idle"
    /\ i = 0
    /\ exc = ""
    /\ last = <<>>
    /\ log = <<>>
    /\ lookups = 0
    /\ before = catalog
    /\ validated = 0
    /\ applied = 0
    /\ expected = catalog
    /\ call = NoCall

\* A call that left the catalog as it was is followed by no other: the
\* calls after it would find the catalog that the calls beside it find.
Fresh == call = NoCall \/ catalog # before

NextEntry ==
    \/ Fresh /\ \E t \in SourceTypes, name \in SourceNames : AddTypedSource(t, name)
    \/ Fresh /\ \E t \in SourceTypes, name \in SourceNames : cli_add_source(t, name)
    \/ Fresh /\ \E stream \in Streams : import_from_stdin(stream)
    \/ Fresh /\ \E source, target \in {Path(ColA), Path(ColB), <<"s1">>} :
                   cli_add_foreign_key(source, target)
    \/ Fresh /\ \E source_names \in SourceNameLists, empty \in SUBSET SourceNames :
                   ScanSources(source_names, empty)
    \/ Fresh /\ \E source_names \in SourceNameLists, empty \in SUBSET SourceNames :
                   cli_scan(source_names, empty)

SpecEntry == InitEntry /\ [][NextEntry]_vars

(***************************************************************************)
(* Properties.  They speak of the record the loop read last (Obj), of the  *)
(* catalog it was read in (before) and of the catalog after it (catalog).  *)
(***************************************************************************)
Read == last # <<>>
Obj == Head(last)

TypeIs(t) == Read /\ Has(Obj, "type") /\ Obj.type = t
Failed == pc = "raised" /\ exc # ""
RaisedIntegrityError == pc = "raised" /\ exc = "IntegrityError"
Applied == pc \in {"running", "done"} /\ exc = ""

\* The fields the specification requires of a record of each entity type.
Required(t) ==
    CASE t = "schema" -> {"database", "schema"}
      [] t = "table" -> {"database", "schema", "table"}
      [] t = "column" -> {"database", "schema", "table", "column", "data_type", "sort_order"}

Complete(t) == TypeIs(t) /\ Required(t) \subseteq DOMAIN Obj

\* A stanza of Obj that carries its four names.
FullStanza(name) ==
    Has(Obj, name) /\ {"database", "schema", "table", "column"} \subseteq DOMAIN Obj[name]
StanzaPath(name) ==
    <<Obj[name].database, Obj[name].schema, Obj[name].table, Obj[name].column>>
Resolves(cat, name) ==
    /\ FullStanza(name)
    /\ has_column(cat, Obj[name].database, Obj[name].schema,
                  Obj[name].table, Obj[name].column)
\* get_foreign_key(cat, *(source stanza + target stanza)) is truthy.
PairHasForeignKey(cat) ==
    get_foreign_key(cat,
        Obj.source.database, Obj.source.schema, Obj.source.table, Obj.source.column,
        Obj.target.database, Obj.target.schema, Obj.target.table, Obj.target.column)

Logged(e) == \E k \in 1..Len(log) : log[k] = e

(* C1: import_from_object_stream validates and applies the records in      *)
(* input order, applying a record only when its own validation returned no *)
(* errors.  At the first record (index i) with validation errors the call  *)
(* raises IntegrityError, all of that record's errors are logged, nothing  *)
(* after it is validated or applied, record i changes nothing, and the     *)
(* catalog is the one obtained by applying exactly the records before i.   *)
C1_ValidateThenApplyInOrder ==
    /\ pc \in {"running", "done"} =>
          /\ validated = i /\ applied = i
          /\ log = <<>>
          /\ catalog = expected
    /\ Read /\ pc # "idle" =>
          (validate_import_obj(before, Obj).errors # <<>> <=> RaisedIntegrityError)
    /\ RaisedIntegrityError =>
          /\ Read
          /\ log = validate_import_obj(before, Obj).errors
          /\ validated = i + 1 /\ applied = i
          /\ catalog = before
          /\ catalog = expected

C1_Witness ==
    /\ RaisedIntegrityError
    /\ i = 1 /\ applied = 1
    /\ Len(log) >= 2
    /\ catalog # EmptyCatalog

(* C2: import fails on forward references.  A schema record naming a        *)
(* source that does not exist, a table record naming a (source, schema)    *)
(* that does not exist, or a column record naming a table that does not    *)
(* exist when the record is processed makes the call fail on that record,  *)
(* adds nothing for it, and no later record is processed.                  *)
ForwardReference ==
    \/ /\ TypeIs("schema") /\ Has(Obj, "database")
       /\ ~has_source(before, Obj.database)
    \/ /\ TypeIs("table") /\ {"database", "schema"} \subseteq DOMAIN Obj
       /\ ~has_schema(before, Obj.database, Obj.schema)
    \/ /\ TypeIs("column") /\ {"database", "schema", "table"} \subseteq DOMAIN Obj
       /\ ~has_table(before, Obj.database, Obj.schema, Obj.table)

C2_ForwardReferenceFails ==
    ForwardReference =>
        /\ Failed
        /\ catalog = before
        /\ validated = i + 1 /\ applied = i

C2_Witness ==
    /\ Failed /\ i = 1
    /\ Complete("table")
    /\ has_source(before, Obj.database)
    /\ ~has_schema(before, Obj.database, Obj.schema)

\* The record is of type t, carries the fields that name a t, and the entity
\* of those names is in the catalog the record was read in.
NameFields(t) ==
    CASE t = "schema" -> {"database", "schema"}
      [] t = "table" -> {"database", "schema", "table"}
      [] t = "column" -> {"database", "schema", "table", "column"}

NamesExisting(t) ==
    /\ TypeIs(t) /\ NameFields(t) \subseteq DOMAIN Obj
    /\ CASE t = "schema" -> has_schema(before, Obj.database, Obj.schema)
         [] t = "table" -> has_table(before, Obj.database, Obj.schema, Obj.table)
         [] t = "column" ->
              has_column(before, Obj.database, Obj.schema, Obj.table, Obj.column)

NamePath(t) ==
    CASE t = "schema" -> <<Obj.database, Obj.schema>>
      [] t = "table" -> <<Obj.database, Obj.schema, Obj.table>>
      [] t = "column" -> <<Obj.database, Obj.schema, Obj.table, Obj.column>>

EntityTypes == {"schema", "table", "column"}

(* C3, as stated: import is not idempotent for entities.  For every        *)
(* schema, table or column record, if the entity it names already exists,  *)
(* validation returns an "... is already defined" error, the call raises   *)
(* IntegrityError and the catalog is unchanged.                            *)
C3_ExistingEntityAlreadyDefined ==
    \A t \in EntityTypes :
        NamesExisting(t) =>
            /\ Logged(AlreadyDefined(t, NamePath(t)))
            /\ RaisedIntegrityError
            /\ catalog = before

(* C3, amended: for every schema, table or column record whose entity      *)
(* already exists the call raises IntegrityError and the catalog is        *)
(* unchanged; validation returns the "... is already defined" error (and   *)
(* no other) when the record carries every field its type requires, and    *)
(* only "no <field> field" errors when it lacks one (a column record       *)
(* without data_type or sort_order).                                       *)
C3_ExistingEntityRejected ==
    \A t \in EntityTypes :
        NamesExisting(t) =>
            /\ RaisedIntegrityError
            /\ catalog = before
            /\ Complete(t) => log = <<AlreadyDefined(t, NamePath(t))>>
            /\ ~Complete(t) =>
                  /\ log # <<>>
                  /\ \A k \in 1..Len(log) : log[k].msg = "no field"

\* The same schema record twice in one stream: the second is rejected.
C3_Witness ==
    /\ RaisedIntegrityError /\ i = 1
    /\ Complete("schema")
    /\ <<Obj.database, Obj.schema>> \in before.schemas
    /\ log = <<AlreadyDefined("schema", <<Obj.database, Obj.schema>>)>>

(* C4: a schema, table or column record lacking a field its type requires  *)
(* is rejected with IntegrityError; validation returns exactly one         *)
(* "no <field> field" error for each missing field and nothing else, makes *)
(* no existence lookup, and the catalog is unchanged.                      *)
MissingRequired == Required(Obj.type) \ DOMAIN Obj

C4_MissingFieldsRejected ==
    \A t \in {"schema", "table", "column"} :
        TypeIs(t) /\ MissingRequired # {} =>
            /\ RaisedIntegrityError
            /\ Len(log) = Cardinality(MissingRequired)
            /\ \A f \in MissingRequired : Logged(NoField(f, ""))
            /\ lookups = 0
            /\ catalog = before

C4_Witness ==
    /\ TypeIs("column")
    /\ MissingRequired = {"database", "sort_order"}
    /\ RaisedIntegrityError
    /\ Len(log) = 2
    /\ has_column(before, "s1", Obj.schema, Obj.table, Obj.column)

(* C5: a record without a 'type' field, or whose type is none of schema,   *)
(* table, column, foreign_key, always has a validation error: the call     *)
(* raises IntegrityError and the catalog is unchanged, whatever else the   *)
(* record carries.                                                         *)
KnownTypes == {"schema", "table", "column", "foreign_key"}

C6_ValidRecordCreatesEntity ==
    /\ Complete("schema") /\ has_source(before, Obj.database)
         /\ ~has_schema(before, Obj.database, Obj.schema) =>
          /\ Applied
          /\ has_schema(catalog, Obj.database, Obj.schema)
          /\ catalog = [before EXCEPT !.schemas =
                          @ \cup {<<get_source(before, Obj.database), Obj.schema>>}]
    /\ Complete("table") /\ has_schema(before, Obj.database, Obj.schema)
         /\ ~has_table(before, Obj.database, Obj.schema, Obj.table) =>
          /\ Applied
          /\ has_table(catalog, Obj.database, Obj.schema, Obj.table)
          /\ catalog = [before EXCEPT !.tables =
                          @ \cup {get_schema(before, Obj.database, Obj.schema)
                                    \o <<Obj.table>>}]
    /\ Complete("column") /\ has_table(before, Obj.database, Obj.schema, Obj.table)
         /\ ~has_column(before, Obj.database, Obj.schema, Obj.table, Obj.column) =>
          /\ Applied
          /\ has_column(catalog, Obj.database, Obj.schema, Obj.table, Obj.column)
          /\ LET c == get_column(catalog, Obj.database, Obj.schema, Obj.table, Obj.column)
             IN  /\ c.data_type = Obj.data_type
                 /\ c.sort_order = Obj.sort_order
                 /\ c.fqdn = get_table(before, Obj.database, Obj.schema, Obj.table)
                               \o <<Obj.column>>
                 /\ catalog = [before EXCEPT !.columns = @ \cup {c}]

\* A column imported into a table stored under another spelling of its name.
C6_Witness ==
    /\ Applied
    /\ Complete("column") /\ Obj.data_type = "Int" /\ Obj.sort_order = 1
    /\ get_table(before, Obj.database, Obj.schema, Obj.table)[3] # Obj.table
    /\ ~has_column(before, Obj.database, Obj.schema, Obj.table, Obj.column)
    /\ has_column(catalog, Obj.database, Obj.schema, Obj.table, Obj.column)

(* C7: a foreign_key record with no 'action' field is applied as an add:   *)
(* when its source and target stanzas each resolve to an existing column   *)
(* and the pair has no foreign key yet, the import succeeds and            *)
(* get_foreign_key for the (source, target) names is then truthy.          *)
C7_NoActionMeansAdd ==
    /\ TypeIs("foreign_key") /\ ~Has(Obj, "action")
    /\ Resolves(before, "source") /\ Resolves(before, "target")
    /\ ~PairHasForeignKey(before)
    => /\ Applied
       /\ PairHasForeignKey(catalog)

(* C8: a one-record stream whose record has the type "foreign-key", no     *)
(* action, and source and target stanzas that each resolve to an existing  *)
(* column is imported without an exception, and get_foreign_key for the    *)
(* (source, target) names is then truthy.                                  *)
C8_HyphenatedTypeImports ==
    /\ TypeIs("foreign-key") /\ ~Has(Obj, "action")
    /\ validated = 1
    /\ Resolves(before, "source") /\ Resolves(before, "target")
    => /\ exc = ""
       /\ pc # "raised"
       /\ PairHasForeignKey(catalog)

(* C9: a foreign_key record that lacks the source or the target stanza,    *)
(* whose stanza lacks one of database/schema/table/column, or whose stanza *)
(* names a column that does not exist is rejected: the call raises         *)
(* IntegrityError, no foreign key is added, and the logged errors name     *)
(* each missing stanza, each missing field with its stanza, and each       *)
(* unresolved column; the errors of the source stanza and those of the     *)
(* target stanza are all reported, not only the first.                     *)
StanzaNames == {"source", "target"}

C10_BadActionRejectedByValidation ==
    TypeIs("foreign_key") /\ Has(Obj, "action") /\ Obj.action \notin {"add", "remove"}
    => /\ validate_import_obj(before, Obj).errors # <<>>
       /\ RaisedIntegrityError
       /\ catalog = before

(* C11: a valid foreign_key record (both stanzas resolve) with action      *)
(* "remove" is applied by remove_foreign_key and never by add_foreign_key: *)
(* afterwards get_foreign_key for the record's ordered pair is falsy and   *)
(* every other foreign key, every schema, table and column is unchanged;   *)
(* with action "add" it adds exactly the one foreign key of that pair and  *)
(* changes nothing else.                                                   *)
ValidForeignKey ==
    /\ TypeIs("foreign_key")
    /\ Resolves(before, "source") /\ Resolves(before, "target")

\* The columns the stanzas of Obj resolve to in the catalog it was read in.
SourceColumn ==
    get_column(before, Obj.source.database, Obj.source.schema,
               Obj.source.table, Obj.source.column)
TargetColumn ==
    get_column(before, Obj.target.database, Obj.target.schema,
               Obj.target.table, Obj.target.column)

OtherForeignKey(row) ==
    ~(row.source = SourceColumn.fqdn /\ row.target = TargetColumn.fqdn)

C11_RemoveRemovesAddAdds ==
    ValidForeignKey /\ Has(Obj, "action") =>
        /\ Obj.action = "remove" =>
              /\ Applied
              /\ ~PairHasForeignKey(catalog)
              /\ catalog = [before EXCEPT !.foreign_keys = SelectSeq(@, OtherForeignKey)]
        /\ Obj.action = "add" =>
              /\ Applied
              /\ PairHasForeignKey(catalog)
              /\ catalog = [before EXCEPT !.foreign_keys =
                              Append(@, [source |-> SourceColumn.fqdn,
                                         target |-> TargetColumn.fqdn])]

\* A remove of one of two foreign keys: the other stays.
C11_Witness ==
    /\ ValidForeignKey /\ Has(Obj, "action") /\ Obj.action = "remove"
    /\ Applied
    /\ PairHasForeignKey(before)
    /\ Len(before.foreign_keys) = 2
    /\ Len(catalog.foreign_keys) = 1
    /\ OtherForeignKey(catalog.foreign_keys[1])

(* C12: foreign keys are unique per ordered pair.  In every reachable      *)
(* state the foreign_keys table holds at most one row for a given (source  *)
(* column, target column), and an add_foreign_key for a pair that already  *)
(* has a foreign key fails with a constraint violation instead of adding a *)
(* second row.                                                             *)
C12_ForeignKeysUnique ==
    /\ \A j, k \in 1..Len(catalog.foreign_keys) :
          catalog.foreign_keys[j] = catalog.foreign_keys[k] => j = k
    /\ ValidForeignKey /\ Has(Obj, "action") /\ Obj.action = "add"
          /\ PairHasForeignKey(before) =>
             /\ Failed
             /\ catalog = before

(* C13: a foreign key's identity is the ordered 8-tuple (source column     *)
(* fqdn, target column fqdn).  After add_foreign_key(c1, c2) the returned  *)
(* key's fqdn is c1's 4-tuple followed by c2's and get_foreign_key with    *)
(* that 8-tuple is truthy; with the reversed 8-tuple (no key c2 -> c1      *)
(* having been added) it is falsy; and with an 8-tuple of which a          *)
(* component names no schema, table or column it is falsy, never an        *)
(* exception.                                                              *)
ProbeStanzas == {ColA, ColB, ColX, ColSc3, ColT3}

\* get_foreign_key(cat, *(s-names + t-names)).
Probe(cat, s, t) ==
    get_foreign_key(cat, s.database, s.schema, s.table, s.column,
                         t.database, t.schema, t.table, t.column)

\* The key the last add_foreign_key returned: the newest row.
ReturnedKey == catalog.foreign_keys[Len(catalog.foreign_keys)]

AddedForeignKey ==
    /\ ValidForeignKey /\ Has(Obj, "action") /\ Obj.action = "add"
    /\ Applied

C13_ForeignKeyIdentity ==
    /\ AddedForeignKey =>
          /\ fqdn(ReturnedKey) = SourceColumn.fqdn \o TargetColumn.fqdn
          /\ Probe(catalog, Obj.source, Obj.target)
          /\ ~Probe(before, Obj.target, Obj.source)
                => ~Probe(catalog, Obj.target, Obj.source)
    /\ \A s, t \in ProbeStanzas :
          \/ /\ has_column(catalog, s.database, s.schema, s.table, s.column)
             /\ has_column(catalog, t.database, t.schema, t.table, t.column)
          \/ Probe(catalog, s, t) = FALSE

\* c1 -> c2 added where both exist and c2 -> c1 was never added.
C13_Witness ==
    /\ AddedForeignKey
    /\ fqdn(ReturnedKey) = <<"s1", "sc1", "t1", "c1", "s1", "sc1", "t1", "c2">>
    /\ Probe(catalog, ColA, ColB)
    /\ ~Probe(catalog, ColB, ColA)
    /\ ~Probe(catalog, ColA, ColT3)

(***************************************************************************)
(* Properties of parse_spec, export_format and the commands.  They speak   *)
(* of the last call.                                                       *)
(***************************************************************************)
Done(op) == call.op = op /\ "result" \in DOMAIN call

StanzaOf(path) == Stanza(path[1], path[2], path[3], path[4])

(* C14: export_format is defined exactly for foreign keys.  For a          *)
(* ForeignKey it returns {type: "foreign_key", source: {database, schema,  *)
(* table, column}, target: {...}} filled with the names of the key's       *)
(* source and target columns and their ancestors, with an 'action' entry   *)
(* iff an action was passed, then equal to the action's value; for any     *)
(* other object it raises NotImplementedError.                             *)
C14_ExportFormatForeignKeysOnly ==
    Done("export_format") =>
        /\ call.obj.class = "CatForeignKey" =>
              /\ call.result.exc = ""
              /\ DOMAIN call.result.dict =
                    {"type", "source", "target"}
                      \cup (IF call.action = "None" THEN {} ELSE {"action"})
              /\ call.result.dict.type = "foreign_key"
              /\ call.result.dict.source = StanzaOf(call.obj.row.source)
              /\ call.result.dict.target = StanzaOf(call.obj.row.target)
              /\ call.action # "None" => call.result.dict.action = call.action
        /\ call.obj.class # "CatForeignKey" =>
              /\ call.result.exc = "NotImplementedError"
              /\ "dict" \notin DOMAIN call.result

C14_Witness ==
    /\ Done("export_format")
    /\ call.obj.class = "CatForeignKey"
    /\ call.obj.row.source # call.obj.row.target
    /\ call.action = "None"
    /\ call.result.exc = ""
    /\ "action" \notin DOMAIN call.result.dict
    /\ call.result.dict.source.table = "t2"

\* export_format of the key the last add returned, no action passed.
Exported == export_format(Object("CatForeignKey", ReturnedKey), "None").dict

ColumnOf(n) == IF n = "source" THEN SourceColumn ELSE TargetColumn

Colons(s) == Cardinality({k \in 1..Len(s) : s[k] = ":"})

SpecCommands == {"references-to", "target-of", "columns", "tables", "add-foreign-key"}

Malformed(s) == Colons(s) >= 4

C16_MalformedSpecRejectedBeforeOpen ==
    /\ Done("parse_spec") /\ Malformed(call.query_string) =>
          /\ call.result.exc = "ValueError"
          /\ "spec" \notin DOMAIN call.result
    /\ call.op \in SpecCommands
         /\ (\E k \in 1..Len(call.argv) : Malformed(call.argv[k])) =>
          /\ call.exc \in {"ValueError", "Exit(126)"}
          /\ Len(call.argv) = 1 \/ Malformed(call.argv[1]) => call.exc = "ValueError"
          /\ ~call.opened
          /\ catalog = before

\* add-foreign-key with a source that names a column of the catalog and a
\* target of five components.
C16_Witness ==
    /\ call.op = "add-foreign-key"
    /\ call.argv[1] = Path(ColA) /\ Malformed(call.argv[2])
    /\ has_column(catalog, "s1", "sc1", "t1", "c1")
    /\ call.exc = "ValueError"
    /\ ~call.opened

(* C17: for every string with at most 4 segments the kind parse_spec       *)
(* returns depends only on the number of segments (colons plus one):       *)
(* 1 -> source, 2 -> schema, 3 -> table, 4 -> column, whatever the         *)
(* segments hold (empty ones and the empty string included) and whatever   *)
(* the default.                                                            *)
C17_KindIsSegmentCount ==
    Done("parse_spec") /\ ~Malformed(call.query_string) =>
        /\ call.result.exc = ""
        /\ call.result.spec.kind =
              CASE Colons(call.query_string) = 0 -> "source"
                [] Colons(call.query_string) = 1 -> "schema"
                [] Colons(call.query_string) = 2 -> "table"
                [] Colons(call.query_string) = 3 -> "column"

\* 'a::' : three segments, the last two empty.
C17_Witness ==
    /\ Done("parse_spec")
    /\ call.query_string = <<"a", ":", ":">>
    /\ call.default = Str(<<"%">>)
    /\ call.result.spec.kind = "table"

(* C18: for every string with at most 4 segments and every default,        *)
(* parse_spec fills source, schema, table, column in that order: the k-th  *)
(* field is the k-th segment when that segment exists and is not empty,    *)
(* and the default when it is empty or absent; so with default None no     *)
(* field is ever the empty string, and 'foo::bar' gives source 'foo',      *)
(* schema default, table 'bar', column default.                            *)
\* The pieces of s between its (k-1)-th and k-th colon.
Segment(s, k) ==
    LET at == {p \in 1..Len(s) :
                 s[p] # ":" /\ Cardinality({j \in 1..(p - 1) : s[j] = ":"}) = k - 1}
    IN  IF at = {} THEN <<>>
        ELSE SubSeq(s, CHOOSE p \in at : \A q \in at : p <= q,
                       CHOOSE p \in at : \A q \in at : q <= p)

C18_FieldsFilledInOrder ==
    Done("parse_spec") /\ ~Malformed(call.query_string) =>
        /\ call.result.exc = ""
        /\ \A k \in 1..4 :
              call.result.spec[entity_names[k]] =
                  IF Segment(call.query_string, k) # <<>>
                  THEN Str(Segment(call.query_string, k))
                  ELSE call.default
        /\ call.default = None =>
              \A k \in 1..4 : call.result.spec[entity_names[k]] # Str(<<>>)

\* 'a::b' with no default.
C18_Witness ==
    /\ Done("parse_spec")
    /\ call.query_string = <<"a", ":", ":", "b">>
    /\ call.default = None
    /\ call.result.spec =
          SpecOf("table", Str(<<"a">>), None, Str(<<"b">>), None)

(* C19: name uniqueness holds in every reachable state, ignoring letter    *)
(* case and scoped to the immediate parent: no two sources, no two schemas *)
(* of one source, no two tables of one schema and no two columns of one    *)
(* table have names equal ignoring case; adding or importing a name that   *)
(* exists under the same parent ('T1' where 't1' is) fails and changes     *)
(* nothing, while the same name under a different parent is accepted.      *)
NoDuplicateNames(cat) ==
    /\ \A a, b \in cat.sources : SameName(a, b) => a = b
    /\ \A a, b \in cat.schemas :
          SameName(a[1], b[1]) /\ SameName(a[2], b[2]) => a = b
    /\ \A a, b \in cat.tables :
          SameName(a[1], b[1]) /\ SameName(a[2], b[2]) /\ SameName(a[3], b[3]) => a = b
    /\ \A a, b \in cat.columns :
          (\A k \in 1..4 : SameName(a.fqdn[k], b.fqdn[k])) => a = b

\* The parent the record names is in the catalog it was read in.
ParentExists(t) ==
    CASE t = "schema" -> has_source(before, Obj.database)
      [] t = "table" -> has_schema(before, Obj.database, Obj.schema)
      [] t = "column" -> has_table(before, Obj.database, Obj.schema, Obj.table)

\* The record's own name is borne by an entity of its type under another
\* parent.
NameTakenElsewhere(t) ==
    CASE t = "schema" ->
           \E r \in before.schemas :
               SameName(r[2], Obj.schema) /\ ~SameName(r[1], Obj.database)
      [] t = "table" ->
           \E r \in before.tables :
               /\ SameName(r[3], Obj.table)
               /\ ~(SameName(r[1], Obj.database) /\ SameName(r[2], Obj.schema))
      [] t = "column" ->
           \E c \in before.columns :
               /\ SameName(c.fqdn[4], Obj.column)
               /\ ~(/\ SameName(c.fqdn[1], Obj.database)
                    /\ SameName(c.fqdn[2], Obj.schema)
                    /\ SameName(c.fqdn[3], Obj.table))

C19_NamesUniqueUnderParent ==
    /\ NoDuplicateNames(catalog)
    /\ pc = "idle" /\ exc = "ConstraintViolation" => catalog = before
    /\ \A t \in EntityTypes :
          /\ NamesExisting(t) => Failed /\ catalog = before
          /\ Complete(t) /\ ParentExists(t) /\ ~NamesExisting(t)
               /\ NameTakenElsewhere(t) =>
                  /\ Applied
                  /\ Cardinality(catalog.schemas) + Cardinality(catalog.tables)
                       + Cardinality(catalog.columns)
                     = Cardinality(before.schemas) + Cardinality(before.tables)
                       + Cardinality(before.columns) + 1

\* 'T1' imported where 't1' is a table of the same schema.
C19_Witness ==
    /\ Complete("table") /\ Obj.table = "T1"
    /\ <<Obj.database, Obj.schema, "t1">> \in before.tables
    /\ Failed
    /\ \E r \in before.schemas : r[2] = Obj.schema /\ r[1] # Obj.database

(* C20: get_column(source, schema, table, column) resolves all four        *)
(* levels: it returns a column only if the column's own source, schema and *)
(* table names match the arguments and reports not-found when any level    *)
(* misses, even if a column of that name exists under a sibling source,    *)
(* schema or table; so a foreign-key stanza that differs from an existing  *)
(* column's path at any one level is reported as 'does not exist'.         *)
Matches(c, s) ==
    /\ SameName(c.fqdn[1], s.database) /\ SameName(c.fqdn[2], s.schema)
    /\ SameName(c.fqdn[3], s.table) /\ SameName(c.fqdn[4], s.column)

\* The levels at which column c and stanza s bear different names.
Differing(c, s) ==
    {k \in 1..4 : ~SameName(c.fqdn[k], <<s.database, s.schema, s.table, s.column>>[k])}

Ran(op) == call.op = op /\ call.opened

Range(f) == {f[k] : k \in DOMAIN f}

\* The command was asked about the column of this fqdn.
AskedAbout(names) == call.argv = <<Line(names)>>

Reports(names) == Line(names) \in Range(call.printed)

ColumnFqdns == {c.fqdn : c \in catalog.columns}

\* There is a foreign key from column x to column y.
Edge(x, y) ==
    \E k \in 1..Len(catalog.foreign_keys) :
        catalog.foreign_keys[k].source = x /\ catalog.foreign_keys[k].target = y

(* C21: the two reference queries are inverse views of the same edges.     *)
(* For columns x and y, 'references-to' asked about y's fqdn reports x     *)
(* exactly when a foreign key x -> y exists, and 'target-of' asked about   *)
(* x's fqdn reports y exactly when a foreign key x -> y exists: so for a   *)
(* key a -> b, references-to b reports a, target-of a reports b, and       *)
(* references-to a reports b (target-of b reports a) only if the reverse   *)
(* key b -> a exists too.                                                  *)
C21_ReferenceQueriesAreInverse ==
    \A x, y \in ColumnFqdns :
        /\ Ran("references-to") /\ AskedAbout(y) => (Reports(x) <=> Edge(x, y))
        /\ Ran("target-of") /\ AskedAbout(x) => (Reports(y) <=> Edge(x, y))

\* A key x -> y without its reverse: a query about one end reports the
\* other, in the key's direction only.
C21_Witness ==
    \E x, y \in ColumnFqdns :
        /\ x # y /\ Edge(x, y) /\ ~Edge(y, x)
        /\ \/ Ran("references-to") /\ AskedAbout(y) /\ Reports(x) /\ ~Reports(y)
           \/ Ran("target-of") /\ AskedAbout(y) /\ call.printed = <<>>

\* (source, schema, table) of a column.
TableOf(c) == SubSeq(c.fqdn, 1, 3)

\* The triples of the columns search_column returns for the command's spec.
FoundTables ==
    {TableOf(c) : c \in search_column(catalog, call.spec.column, call.spec.table,
                                      call.spec.schema, call.spec.source)}

(* C22: the table search is a projection of the column search.  What       *)
(* 'tables' prints is exactly the distinct (source, schema, table) triples *)
(* of the columns search_column returns for the same spec, each once, in   *)
(* sorted order; a table without a column, or without a column that        *)
(* matches the column pattern, is not printed.                             *)
C22_TablesProjectColumns ==
    Ran("tables") =>
        /\ Range(call.printed) = {Line(t) : t \in FoundTables}
        /\ Len(call.printed) = Cardinality(FoundTables)
        /\ \A j, k \in DOMAIN call.printed :
              j < k => \E a, b \in FoundTables :
                          /\ call.printed[j] = Line(a)
                          /\ call.printed[k] = Line(b)
                          /\ TupleLess(a, b)
        /\ \A t \in catalog.tables :
              (\A c \in catalog.columns :
                  TableOf(c) = t => ~Like(call.spec.column, c.fqdn[4]))
                => Line(t) \notin Range(call.printed)

\* Two tables are printed, one of them for two columns; a third table, whose
\* names match the patterns but which has no column, is not.
C22_Witness ==
    /\ Ran("tables")
    /\ Len(call.printed) = 2
    /\ \E c, d \in catalog.columns :
          /\ c # d /\ TableOf(c) = TableOf(d)
          /\ Line(TableOf(c)) \in Range(call.printed)
          /\ Like(call.spec.column, c.fqdn[4]) /\ Like(call.spec.column, d.fqdn[4])
    /\ \E t \in catalog.tables :
          /\ Like(call.spec.source, t[1]) /\ Like(call.spec.schema, t[2])
          /\ Like(call.spec.table, t[3])
          /\ \A c \in catalog.columns : TableOf(c) # t
          /\ Line(t) \notin Range(call.printed)

\* The foreign_keys table lost a row in this step.
ForeignKeyRowLost ==
    \E row \in Range(catalog.foreign_keys) :
        Cardinality({k \in DOMAIN catalog'.foreign_keys : catalog'.foreign_keys[k] = row})
          < Cardinality({k \in DOMAIN catalog.foreign_keys : catalog.foreign_keys[k] = row})

\* This step applied a foreign_key record whose action is remove.
ForeignKeyRemoval ==
    /\ pc = "running"
    /\ last' # <<>>
    /\ Has(Head(last'), "type") /\ Head(last').type = "foreign_key"
    /\ Has(Head(last'), "action") /\ Head(last').action = "remove"
    /\ applied' = applied + 1

Traced == "trace" \in DOMAIN call

\* How many of the events are among the first n of the call's trace.
Count(events, n) ==
    Cardinality({k \in 1..n : call.trace[k] \in events})

\* A transaction is open when the k-th event happens.
InTransaction(k) ==
    Count({"begin"}, k - 1) > Count({"commit", "rollback"}, k - 1)

\* The calls that the claim names: an add_<type>_source function, the
\* import command, the add-foreign-key command.
MutatingEntryPoint == call.op \in {"add_source", "import", "add-foreign-key"}

(* C24: every mutating entry point performs its catalog mutations inside a *)
(* scoped transaction.  Each write of a call of an add_<type>_source       *)
(* function, of the import command or of the add-foreign-key command       *)
(* happens while a transaction is open, and that transaction is committed  *)
(* afterwards when the call returns normally and rolled back when it       *)
(* raises.                                                                 *)
C24_MutationsInScopedTransaction ==
    MutatingEntryPoint /\ Traced =>
        \A k \in DOMAIN call.trace :
            call.trace[k] = "write" =>
                /\ InTransaction(k)
                /\ \E j \in DOMAIN call.trace :
                      /\ j > k
                      /\ call.trace[j] = IF call.exc = "" THEN "commit" ELSE "rollback"

\* The events of the whole trace.
Total(events) == Count(events, Len(call.trace))

\* The exits of a call: a normal return, or the exception that left it.
Exits ==
    {"", "IntegrityError", "NoMatchesError", "ConstraintViolation",
     "NoResultFound", "ValueError", "KeyError", "Exit(126)"}

(* C25: resource scoping.  Whatever way a call of scan_sources, of an      *)
(* add_<type>_source function or of a command ends (normal return,         *)
(* IntegrityError of a failed import, NoMatchesError of a scan, a          *)
(* constraint violation, any other exception), every session it acquired   *)
(* was released, every transaction it began was committed or rolled back,  *)
(* nothing was released that was not held, and a command that opened the   *)
(* catalog closed it as its last act.                                      *)
C25_EveryScopeReleased ==
    Traced =>
        /\ call.exc \in Exits
        /\ Total({"session"}) = Total({"release"})
        /\ Total({"begin"}) = Total({"commit", "rollback"})
        /\ Total({"open"}) = Total({"close"})
        /\ \A n \in DOMAIN call.trace :
              /\ Count({"release"}, n) <= Count({"session"}, n)
              /\ Count({"commit", "rollback"}, n) <= Count({"begin"}, n)
              /\ Count({"close"}, n) <= Count({"open"}, n)
        /\ call.opened =>
              /\ Total({"open"}) = 1
              /\ call.trace[1] = "open"
              /\ call.trace[Len(call.trace)] = "close"

\* An import that applied a record and then failed on the next one: the
\* session was released and the catalog closed all the same.
C25_Witness ==
    /\ call.op = "import"
    /\ call.exc = "IntegrityError"
    /\ call.trace = <<"open", "session", "write", "release", "close">>

\* The last call was scan_sources, on its own or from the scan command.
Scanned == call.op \in {"scan_sources", "scan"}

\* The names given that have a source, and those that have none, both in
\* the order given.
NamesFound ==
    LET found(n) == has_source(catalog, n) IN SelectSeq(call.source_names.list, found)
NamesNotFound ==
    LET absent(n) == ~has_source(catalog, n) IN SelectSeq(call.source_names.list, absent)

\* Every scan up to the last one scanned had something to scan.
NoScanFailed == \A k \in DOMAIN call.scanned : call.scanned[k] \notin call.empty

C27_SortOrderUniqueInTable ==
    \A c, d \in catalog.columns :
        TableOf(c) = TableOf(d) /\ c.sort_order = d.sort_order => c = d

\* Every row of cat has its parent row, and every foreign key its two
\* columns.
ReferentialIntegrity(cat) ==
    /\ \A r \in cat.schemas : r[1] \in cat.sources
    /\ \A t \in cat.tables : SubSeq(t, 1, 2) \in cat.schemas
    /\ \A c \in cat.columns : TableOf(c) \in cat.tables
    /\ \A k \in DOMAIN cat.foreign_keys :
          /\ \E c \in cat.columns : c.fqdn = cat.foreign_keys[k].source
          /\ \E c \in cat.columns : c.fqdn = cat.foreign_keys[k].target

\* The record read last put a row into foreign_keys.
ForeignKeyCreated ==
    /\ TypeIs("foreign_key")
    /\ Len(catalog.foreign_keys) > Len(before.foreign_keys)

(* C28: referential integrity holds in every state reachable by import and *)
(* add operations.  Every foreign key's source and target are existing     *)
(* columns, every column belongs to an existing table, every table to an   *)
(* existing schema, every schema to an existing source; and a foreign key  *)
(* that an import creates joins the two columns its record's stanzas       *)
(* resolve to, both of which existed before the record.                    *)
C28_ReferentialIntegrity ==
    /\ ReferentialIntegrity(catalog)
    /\ ForeignKeyCreated =>
          /\ Resolves(before, "source") /\ Resolves(before, "target")
          /\ catalog.foreign_keys[Len(catalog.foreign_keys)] =
               [source |-> SourceColumn.fqdn, target |-> TargetColumn.fqdn]

\* A foreign key was just imported into a catalog that has rows at every
\* level.
C28_Witness ==
    /\ ForeignKeyCreated
    /\ catalog.foreign_keys[Len(catalog.foreign_keys)].source
         # catalog.foreign_keys[Len(catalog.foreign_keys)].target
    /\ ReferentialIntegrity(catalog)

(* C29: validation is sufficient for application.  Whenever               *)
(* validate_import_obj returns no errors for a record in a catalog,        *)
(* consume_import_obj applied to that record in that catalog returns       *)
(* without raising; hence the only exception import_from_object_stream     *)
(* raises is IntegrityError.                                               *)
C29_ValidRecordApplies ==
    /\ Read /\ validate_import_obj(before, Obj).errors = <<>> =>
          consume_import_obj(before, Obj).exc = ""
    /\ pc = "raised" => exc = "IntegrityError"

\* The rows the record read last added to the catalog.
NewSchemas == catalog.schemas \ before.schemas
NewTables == catalog.tables \ before.tables
NewColumns == catalog.columns \ before.columns
ForeignKeysChanged == catalog.foreign_keys # before.foreign_keys

\* How many entities the record read last created or removed.
Touched ==
    Cardinality(NewSchemas) + Cardinality(NewTables) + Cardinality(NewColumns)
      + (IF ForeignKeysChanged THEN 1 ELSE 0)

(* C30: import touches only what a record names.  A record that fails      *)
(* validation, or that consume_import_obj raises on, leaves the catalog as *)
(* it was.  Applying a record leaves every row that existed as it was,     *)
(* leaves the sources as they were, and creates or removes at most one     *)
(* entity: the schema, table or column the record names, under the parent  *)
(* that existed before (none is created for it), or rows of the one        *)
(* foreign key its stanzas name, the other keys staying in place.          *)
C30_ImportTouchesOnlyNamedEntity ==
    Read =>
        /\ catalog.sources = before.sources
        /\ before.schemas \subseteq catalog.schemas
        /\ before.tables \subseteq catalog.tables
        /\ before.columns \subseteq catalog.columns
        /\ Touched <= 1
        /\ ~Applied => catalog = before
        /\ NewSchemas # {} =>
              /\ TypeIs("schema") /\ has_source(before, Obj.database)
              /\ NewSchemas = {<<get_source(before, Obj.database), Obj.schema>>}
        /\ NewTables # {} =>
              /\ TypeIs("table") /\ has_schema(before, Obj.database, Obj.schema)
              /\ NewTables = {get_schema(before, Obj.database, Obj.schema)
                                \o <<Obj.table>>}
        /\ NewColumns # {} =>
              /\ TypeIs("column")
              /\ has_table(before, Obj.database, Obj.schema, Obj.table)
              /\ NewColumns =
                   {[fqdn |-> get_table(before, Obj.database, Obj.schema, Obj.table)
                                \o <<Obj.column>>,
                     data_type |-> Obj.data_type, sort_order |-> Obj.sort_order]}
        /\ ForeignKeysChanged =>
              /\ ValidForeignKey
              /\ SelectSeq(catalog.foreign_keys, OtherForeignKey)
                   = SelectSeq(before.foreign_keys, OtherForeignKey)
              /\ \/ catalog.foreign_keys =
                      Append(before.foreign_keys, [source |-> SourceColumn.fqdn,
                                                   target |-> TargetColumn.fqdn])
                 \/ catalog.foreign_keys = SelectSeq(before.foreign_keys, OtherForeignKey)

\* A second column is imported into a table: the column is all that is new.
C30_Witness ==
    /\ Applied /\ TypeIs("column")
    /\ before.columns # {}
    /\ Cardinality(NewColumns) = 1
    /\ Touched = 1
    /\ catalog = [before EXCEPT !.columns = @ \cup NewColumns]

====
